---- MODULE Spec2Model ----
(***************************************************************************)
(* A model of StorageManager (src/storage/StorageManager.ts): the private  *)
(* record set of one dataset and one owner kept in the local store of      *)
(* several devices and synchronised through one remote snapshot and one    *)
(* remote device marker.                                                   *)
(*                                                                         *)
(* Three specifications share the module:                                  *)
(*   SpecMerge     mergeData applied to bounded pairs of maps              *)
(*   Spec          the sync protocol (sync, forceUpload, forceDownload,    *)
(*                 forceMerge, local writes)                               *)
(*   SpecDebounce  the debounce registry of syncWithDebounce               *)
(* Each specification leaves the variables of the other two untouched.     *)
(***************************************************************************)
EXTENDS Integers, FiniteSets, Sequences, TLC

VARIABLES
    \* ---- SpecMerge
    mS3,        \* s3DataMap handed to mergeData
    mLocal,     \* localDataMap handed to mergeData
    mOut,       \* mergeData(mS3, mLocal)
    mOut2,      \* mergeData(mS3, mOut)
    mpc,        \* "start", "merged", "again"
    \* ---- Spec
    now,        \* Date.now()
    local,      \* local[d]: private records of the partition on device d
    counter,    \* counter[d]: metadata record <dataType>PrivateDataLastUpdated
    snapshot,   \* the remote snapshot blob of the owner
    marker,     \* the remote device marker blob of the dataset
    budget,     \* operations in which a remote call may still fail
    last,       \* the last operation and what it saw
    \* ---- SpecDebounce
    dnow,       \* clock of the timer model
    registry,   \* StorageManager.debounceTimers.get(dataType)
    pending,    \* timers armed and not yet fired or cleared: id -> due time
    running,    \* timers whose callback is inside sync()
    nextId,     \* next timer handle
    burst,      \* bookkeeping of the current burst of triggers
    settled,    \* timers whose call of syncWithDebounce had its promise resolved
    \* ---- SpecStore
    clock,             \* Date.now() of the store model
    privateDataStore,  \* object store privateDataStore: key -> record
    remote,            \* the snapshot blob of owner SyncOwner
    slast,             \* the last operation on the store and what it returned
    \* ---- SpecExpiry
    tnow,              \* Date.now() of the expiry model
    expiryPrivate,     \* object store privateDataStore: key -> record
    expiryPublic,      \* object store publicDataStore: key -> record
    tlast,             \* the last operation of SpecExpiry
    \* ---- SpecOrphan
    orphanStore,       \* private records of all datasets of one owner
    olast,             \* the last operation of SpecOrphan
    \* ---- SpecPublic
    publicDataStore,   \* object store publicDataStore: key -> record
    s3Public,          \* public objects of the remote store: key -> payload
    plast,             \* the last operation of SpecPublic
    \* ---- SpecReplay
    rpc,               \* rpc[i]: "idle", or "replay" from the partition clear
                       \* of invocation i to the end of its replay
    rtodo              \* rtodo[i]: the fetched items invocation i has yet to put

mergeVars == <<mS3, mLocal, mOut, mOut2, mpc>>
syncVars == <<now, local, counter, snapshot, marker, budget, last>>
debounceVars == <<dnow, registry, pending, running, nextId, burst, settled>>
storeVars == <<clock, privateDataStore, remote, slast>>
expiryVars == <<tnow, expiryPrivate, expiryPublic, tlast>>
orphanVars == <<orphanStore, olast>>
publicVars == <<publicDataStore, s3Public, plast>>
replayVars == <<rpc, rtodo>>
localVars == <<storeVars, expiryVars, orphanVars, publicVars, replayVars>>
vars == <<mergeVars, syncVars, debounceVars, localVars>>

(***************************************************************************)
(* Bounds                                                                  *)
(***************************************************************************)
MergeKeys == 2      \* keys of the maps handed to mergeData
MaxLM == 1          \* lastModified values 0..MaxLM in SpecMerge (0: missing)
MergeVals == 2      \* payloads 1..MergeVals in SpecMerge
TimeStep == 500     \* the clock of Spec advances in steps of TimeStep ms
MaxTime == 2000     \* the clock of Spec stops at MaxTime
MaxVal == 1         \* payloads 1..MaxVal in Spec
DebounceTicks == 2  \* debounceTime of syncWithDebounce, in ticks of SpecDebounce
MaxDTime == 5       \* the clock of SpecDebounce stops at MaxDTime
MaxTimers == 3      \* timers armed in one behaviour of SpecDebounce

(***************************************************************************)
(* Maps (JavaScript Map / object store keyed by primary key) are functions *)
(* whose domain is the set of keys present.                                *)
(***************************************************************************)
EmptyMap == [k \in {} |-> 0]

MapSet(m, k, v) == [x \in (DOMAIN m) \cup {k} |-> IF x = k THEN v ELSE m[x]]

MapDelete(m, k) == [x \in (DOMAIN m) \ {k} |-> m[x]]

(***************************************************************************)
(* mergeData, loop by loop.  A record needs the fields lastModified and    *)
(* deleted; a missing lastModified is the number 0, as after `|| 0`.       *)
(***************************************************************************)

\* MergeLocalEntry with a winning local tombstone stored instead of removed.
MergeLocalEntry_KeepsTombstone(mergedData, key, s3DataMap, localDataMap) ==
    LET localItem == localDataMap[key] IN
    IF key \in DOMAIN s3DataMap
    THEN LET s3Item == s3DataMap[key] IN
         IF s3Item.lastModified > localItem.lastModified
         THEN IF s3Item.deleted THEN MapDelete(mergedData, key)
                                ELSE MapSet(mergedData, key, s3Item)
         ELSE MapSet(mergedData, key, localItem)
    ELSE IF localItem.deleted THEN MapDelete(mergedData, key)
                              ELSE MapSet(mergedData, key, localItem)

\* Body of the loop over localDataMap for one key.
MergeLocalEntry(mergedData, key, s3DataMap, localDataMap) ==
    LET localItem == localDataMap[key] IN
    IF key \in DOMAIN s3DataMap
    THEN LET s3Item == s3DataMap[key] IN
         IF s3Item.lastModified > localItem.lastModified
         THEN IF s3Item.deleted THEN MapDelete(mergedData, key)
                                ELSE MapSet(mergedData, key, s3Item)
         ELSE IF localItem.deleted THEN MapDelete(mergedData, key)
                                   ELSE MapSet(mergedData, key, localItem)
    ELSE IF localItem.deleted THEN MapDelete(mergedData, key)
                              ELSE MapSet(mergedData, key, localItem)

\* Body of the loop over s3DataMap for one key not yet resolved.
MergeRemoteEntry(mergedData, key, s3DataMap) ==
    IF s3DataMap[key].deleted THEN MapDelete(mergedData, key)
                              ELSE MapSet(mergedData, key, s3DataMap[key])

RECURSIVE MergeLocalLoop(_, _, _, _)
MergeLocalLoop(mergedData, todo, s3DataMap, localDataMap) ==
    IF todo = {} THEN mergedData
    ELSE LET key == CHOOSE k \in todo : TRUE IN
         MergeLocalLoop(MergeLocalEntry(mergedData, key, s3DataMap, localDataMap),
                        todo \ {key}, s3DataMap, localDataMap)

RECURSIVE MergeRemoteLoop(_, _, _)
MergeRemoteLoop(mergedData, todo, s3DataMap) ==
    IF todo = {} THEN mergedData
    ELSE LET key == CHOOSE k \in todo : TRUE IN
         MergeRemoteLoop(MergeRemoteEntry(mergedData, key, s3DataMap),
                         todo \ {key}, s3DataMap)

\* mergedData is seeded with s3DataMap; resolvedDataSet is DOMAIN localDataMap
\* once the first loop is over.
mergeData(s3DataMap, localDataMap) ==
    LET seeded == s3DataMap
        afterLocal == MergeLocalLoop(seeded, DOMAIN localDataMap,
                                     s3DataMap, localDataMap)
    IN  MergeRemoteLoop(afterLocal, (DOMAIN s3DataMap) \ (DOMAIN localDataMap),
                        s3DataMap)

(***************************************************************************)
(* SpecMerge: mergeData on every pair of bounded maps, then on its result. *)
(***************************************************************************)
MergeRecords == [lastModified : 0..MaxLM, deleted : BOOLEAN, data : 1..MergeVals]

MergeMaps == UNION {[D -> MergeRecords] : D \in SUBSET (1..MergeKeys)}

(***************************************************************************)
(* Spec: devices, the remote store and the sync family.                    *)
(***************************************************************************)
Devs == {"d1", "d2"}        \* devices of the owner
Keys == {"k1"}              \* input ids of the dataset
Tolerance == 1000           \* sync(): time_difference < 1000

Null == "null"              \* JavaScript null of a string-valued field
NoSnapshot == [found |-> FALSE, privateData |-> EmptyMap]
NoMarker == [found |-> FALSE, lastUsedDevice |-> Null, lastUpdated |-> 0]
DebugDevice == "debug-device"   \* the key the debug page writes

\* Call sites that can fail with an error other than not-found: four calls of
\* the remote store, two reads of the local database (getDeviceKey() and
\* getAllPrivateIndexedDBData()) and the sweep clearOrphanedData().
Sites == {"getMarker", "getSnapshot", "putSnapshot", "putMarker",
          "getDeviceKey", "getAllLocal", "clearOrphanedData"}

Abs(x) == IF x < 0 THEN 0 - x ELSE x

\* What a handler carries from one awaited call to the next: the local
\* partition, the local counter, the two remote blobs and the pending throw.
\* err is "none", "NoSuchKey" or "Error"; gc is the set of sweeps the handler
\* has started.
Ctx(loc, cnt, snap, mk) ==
    [loc |-> loc, cnt |-> cnt, snap |-> snap, mk |-> mk, err |-> "none",
     success |-> TRUE, action |-> "no_action_needed", hit |-> {}, gc |-> {}]

\* The call at site s failed with an error other than not-found.
Throw(c, s) == [c EXCEPT !.err = "Error", !.hit = @ \cup {s}]

Return(c, success, action) ==
    [c EXCEPT !.err = "none", !.success = success, !.action = action]

\* getLastUsedDeviceFromS3: not-found and a marker with an empty field both
\* read as {null, null}.
getLastUsedDeviceFromS3(mk) ==
    IF ~mk.found \/ mk.lastUsedDevice = Null \/ mk.lastUpdated = 0
    THEN [lastUsedDevice |-> Null, lastUpdated |-> 0]
    ELSE [lastUsedDevice |-> mk.lastUsedDevice, lastUpdated |-> mk.lastUpdated]

\* uploadPrivateDataToS3 without the save of the counter.
uploadPrivateDataToS3_NoCounter(c, privateData, t, F) ==
    IF "putSnapshot" \in F
    THEN Throw(c, "putSnapshot")
    ELSE [c EXCEPT !.snap = [found |-> TRUE, privateData |-> privateData]]

\* uploadPrivateDataToS3: put the snapshot, then save the counter.
uploadPrivateDataToS3(c, privateData, t, F) ==
    IF "putSnapshot" \in F
    THEN Throw(c, "putSnapshot")
    ELSE [c EXCEPT !.snap = [found |-> TRUE, privateData |-> privateData],
                   !.cnt = t]

\* forceUploadToBackend (uploadEmpty = false).
forceUploadToBackend(c, t, F) ==
    LET r == IF "getAllLocal" \in F THEN Throw(c, "getAllLocal")
             ELSE uploadPrivateDataToS3(c, c.loc, t, F)
    IN  IF r.err = "none" THEN Return(r, TRUE, "uploaded")
                          ELSE Return(r, FALSE, "no_action_needed")

\* The record setPrivateIndexedDBData receives for one item of the snapshot.
DownloadedItem(item, t) ==
    [lastModified |-> t, deleted |-> item.deleted, data |-> item.data]

\* downloadPrivateDataFromS3: fetch, clear the partition, replay the items.
downloadPrivateDataFromS3(c, t, F) ==
    IF "getSnapshot" \in F THEN Throw(c, "getSnapshot")
    ELSE IF ~c.snap.found THEN [c EXCEPT !.err = "NoSuchKey"]
    ELSE [c EXCEPT !.loc = [k \in DOMAIN c.snap.privateData |->
                               DownloadedItem(c.snap.privateData[k], t)]]

\* forceDownloadFromBackend without the fallback: NoSuchKey fails like any other
\* error.
forceDownloadFromBackend_NoFallback(c, t, F) ==
    LET r == downloadPrivateDataFromS3(c, t, F) IN
    IF r.err = "none" THEN Return(r, TRUE, "downloaded")
                      ELSE Return(r, FALSE, "no_action_needed")

\* forceDownloadFromBackend: NoSuchKey falls back to forceUploadToBackend,
\* whose result is dropped.
forceDownloadFromBackend(c, t, F) ==
    LET r == downloadPrivateDataFromS3(c, t, F) IN
    IF r.err = "none" THEN Return(r, TRUE, "downloaded")
    ELSE IF r.err = "NoSuchKey"
         THEN Return(forceUploadToBackend(Return(r, TRUE, "no_action_needed"),
                                          t, F),
                     TRUE, "uploaded")
         ELSE Return(r, FALSE, "no_action_needed")

\* saveLastUsedDeviceToS3 with lastUpdated always Date.now().
saveLastUsedDeviceToS3_Now(c, key, t, F) ==
    IF "putMarker" \in F THEN Throw(c, "putMarker")
    ELSE [c EXCEPT !.mk = [found |-> TRUE, lastUsedDevice |-> key,
                           lastUpdated |-> t]]

\* saveLastUsedDeviceToS3.
saveLastUsedDeviceToS3(c, key, t, F) ==
    IF "putMarker" \in F THEN Throw(c, "putMarker")
    ELSE [c EXCEPT !.mk = [found |-> TRUE, lastUsedDevice |-> key,
                           lastUpdated |-> IF c.cnt = 0 THEN t ELSE c.cnt]]

\* SyncDecision with the last two branches swapped: a marker of another device
\* uploads, no marker downloads.
SyncDecision_Swapped(s3DeviceKey, s3LastUpdated, localDeviceKey, localLastUpdated) ==
    LET time_difference ==
            IF s3LastUpdated # 0 /\ localLastUpdated # 0
            THEN Abs(s3LastUpdated - localLastUpdated) ELSE 0
    IN  IF s3DeviceKey # Null /\ localDeviceKey = s3DeviceKey
        THEN IF time_difference < Tolerance THEN "in_sync"
             ELSE IF s3LastUpdated # 0 /\ s3LastUpdated > localLastUpdated
                  THEN "download"
                  ELSE "upload"
        ELSE IF s3DeviceKey # Null /\ localDeviceKey # s3DeviceKey
             THEN "upload"
             ELSE "download"

\* SyncDecision without the tolerance window: in sync only when the two times
\* are equal.
SyncDecision_NoWindow(s3DeviceKey, s3LastUpdated, localDeviceKey, localLastUpdated) ==
    LET time_difference ==
            IF s3LastUpdated # 0 /\ localLastUpdated # 0
            THEN Abs(s3LastUpdated - localLastUpdated) ELSE 0
    IN  IF s3DeviceKey # Null /\ localDeviceKey = s3DeviceKey
        THEN IF time_difference = 0 THEN "in_sync"
             ELSE IF s3LastUpdated # 0 /\ s3LastUpdated > localLastUpdated
                  THEN "download"
                  ELSE "upload"
        ELSE IF s3DeviceKey # Null /\ localDeviceKey # s3DeviceKey
             THEN "download"
             ELSE "upload"

\* The branch sync() takes: "in_sync", "download" or "upload".
SyncDecision(s3DeviceKey, s3LastUpdated, localDeviceKey, localLastUpdated) ==
    LET time_difference ==
            IF s3LastUpdated # 0 /\ localLastUpdated # 0
            THEN Abs(s3LastUpdated - localLastUpdated) ELSE 0
    IN  IF s3DeviceKey # Null /\ localDeviceKey = s3DeviceKey
        THEN IF time_difference < Tolerance THEN "in_sync"
             ELSE IF s3LastUpdated # 0 /\ s3LastUpdated > localLastUpdated
                  THEN "download"
                  ELSE "upload"
        ELSE IF s3DeviceKey # Null /\ localDeviceKey # s3DeviceKey
             THEN "download"
             ELSE "upload"

\* After the transfer: the marker is saved when the transfer reported success;
\* a throw of the save lands in the catch of sync().
SyncFinish(r, key, t, F) ==
    IF ~r.success THEN r
    ELSE LET s == saveLastUsedDeviceToS3(r, key, t, F) IN
         IF s.err = "none" THEN s
         ELSE Return(s, FALSE, "no_action_needed")

\* SyncTry with a failed read of the marker taken for a missing marker.
SyncTry_MarkerErrorAsAbsent(c, key, t, F) ==
    LET c1 == IF "getMarker" \in F
              THEN [c EXCEPT !.hit = @ \cup {"getMarker"}] ELSE c
        m == IF "getMarker" \in F
             THEN [lastUsedDevice |-> Null, lastUpdated |-> 0]
             ELSE getLastUsedDeviceFromS3(c.mk)
        branch == SyncDecision(m.lastUsedDevice, m.lastUpdated, key, c.cnt)
    IN  IF "getDeviceKey" \in F
        THEN Return(Throw(c1, "getDeviceKey"), FALSE, "no_action_needed")
        ELSE CASE branch = "in_sync" -> Return(c1, TRUE, "no_action_needed")
               [] branch = "download" ->
                      SyncFinish(forceDownloadFromBackend(c1, t, F), key, t, F)
               [] branch = "upload" ->
                      SyncFinish(forceUploadToBackend(c1, t, F), key, t, F)

\* The try and catch blocks of sync(); key is the device key getDeviceKey()
\* returns.
SyncTry(c, key, t, F) ==
    IF "getMarker" \in F
    THEN Return(Throw(c, "getMarker"), FALSE, "no_action_needed")
    ELSE IF "getDeviceKey" \in F
    THEN Return(Throw(c, "getDeviceKey"), FALSE, "no_action_needed")
    ELSE LET m == getLastUsedDeviceFromS3(c.mk)
             branch == SyncDecision(m.lastUsedDevice, m.lastUpdated, key, c.cnt)
         IN  CASE branch = "in_sync" -> Return(c, TRUE, "no_action_needed")
               [] branch = "download" ->
                      SyncFinish(forceDownloadFromBackend(c, t, F), key, t, F)
               [] branch = "upload" ->
                      SyncFinish(forceUploadToBackend(c, t, F), key, t, F)

\* The finally block of sync(): clearOrphanedData() is started and not
\* awaited; it catches its own failure.  With learnerId "" in every record
\* it selects no item.
SyncFinally(r, F) ==
    [r EXCEPT !.gc = @ \cup {"clearOrphanedData"},
              !.hit = IF "clearOrphanedData" \in F
                      THEN @ \cup {"clearOrphanedData"} ELSE @]

\* sync() up to its return.
sync(c, key, t, F) == SyncFinally(SyncTry(c, key, t, F), F)

\* mergePrivateDataAndS3.  The snapshot items are read with
\* `lastModified || Date.now()`.
S3PrivateDataMap(snap, t) ==
    [k \in DOMAIN snap.privateData |->
        [snap.privateData[k] EXCEPT
            !.lastModified = IF @ = 0 THEN t ELSE @]]

mergePrivateDataAndS3(c, t, F) ==
    IF "getAllLocal" \in F
    THEN Throw(c, "getAllLocal")                    \* before the try block
    ELSE IF "getSnapshot" \in F
    THEN Return(Throw(c, "getSnapshot"), TRUE, "no_action_needed")  \* swallowed
    ELSE IF ~c.snap.found
         THEN uploadPrivateDataToS3(c, c.loc, t, F)   \* throws out of the catch
         ELSE LET merged == mergeData(S3PrivateDataMap(c.snap, t), c.loc)
                  replaced == [c EXCEPT !.loc = merged]
                  up == uploadPrivateDataToS3(replaced, merged, t, F)
              IN  [up EXCEPT !.err = "none"]          \* logged and swallowed

\* forceMergeWithBackend without its catch block.
forceMergeWithBackend_NoCatch(c, t, F) ==
    LET r == mergePrivateDataAndS3(c, t, F) IN
    IF r.err = "none" THEN Return(r, TRUE, "downloaded") ELSE r

\* forceMergeWithBackend.
forceMergeWithBackend(c, t, F) ==
    LET r == mergePrivateDataAndS3(c, t, F) IN
    IF r.err = "none" THEN Return(r, TRUE, "downloaded")
                      ELSE Return(r, FALSE, "no_action_needed")

(***************************************************************************)
(* State and actions of Spec.  The manager is configured as on the debug   *)
(* pages (useLearnerId false, usePrivateData true): every record carries   *)
(* learnerId "", so clearOrphanedData(), which the finally block of sync() *)
(* starts, selects no item and changes nothing.  A record is its           *)
(* lastModified, its deleted flag and its payload.                         *)
(***************************************************************************)
MergeIdle ==
    /\ mS3 = EmptyMap /\ mLocal = EmptyMap /\ mOut = EmptyMap
    /\ mOut2 = EmptyMap /\ mpc = "idle"

NoBurst == [calls |-> 0, lastCall |-> 0, started |-> 0, early |-> FALSE,
            cleared |-> FALSE]

DebounceIdle ==
    /\ dnow = 0 /\ registry = 0 /\ pending = EmptyMap /\ running = {}
    /\ nextId = 1 /\ burst = NoBurst /\ settled = {}

\* The local stores of SpecStore and SpecOrphan.  Two owners use the dataset
\* DataType on one local database.  A private key
\* `${s3PrivatePrefix}/${sha256(userId)}/${inputId}` is the pair <<o, id>>.
Owners == {"A", "B"}
Ids == {"i1"}
DataType == "debug"
PrivateKeys == Owners \X Ids

\* The last operation of SpecStore.  seen: the owners whose payload the
\* operation returned or reported as present; seenDeleted: one of the records
\* it returned or reported as present has deleted = true; writes and
\* triggers: the calls of savePrivateDataLastUpdatedTime and of
\* syncWithDebounce it made.
NoStoreOp == [op |-> "none", owner |-> Null, seen |-> {},
              seenDeleted |-> FALSE, writes |-> 0, triggers |-> 0]

StoreIdle ==
    /\ clock = 0
    /\ privateDataStore = EmptyMap
    /\ remote = NoSnapshot
    /\ slast = NoStoreOp

\* The last operation of SpecExpiry and the owner whose manager ran it.
NoExpiryOp == [op |-> "none", owner |-> Null, cutoffTime |-> 0]

ExpiryIdle ==
    /\ tnow = 0
    /\ expiryPrivate = EmptyMap
    /\ expiryPublic = EmptyMap
    /\ tlast = NoExpiryOp

\* The last operation of SpecOrphan: the dataset of the manager that ran it,
\* the store before it, the counter writes and debounce triggers it made.
NoOrphanOp ==
    [op |-> "none", dataType |-> Null, before |-> EmptyMap, writes |-> 0,
     triggers |-> 0]

OrphanIdle == orphanStore = EmptyMap /\ olast = NoOrphanOp

\* The last operation of SpecPublic.
NoPublicOp ==
    [op |-> "none", key |-> Null, payload |-> <<>>, ok |-> TRUE,
     found |-> FALSE, localBefore |-> EmptyMap, remoteBefore |-> EmptyMap]

PublicIdle ==
    publicDataStore = EmptyMap /\ s3Public = EmptyMap /\ plast = NoPublicOp

\* Two calls of forceDownloadFromBackend() on one device that may be in
\* flight at the same time.
Invocations == {"first", "second"}

ReplayIdle ==
    /\ rpc = [i \in Invocations |-> "idle"]
    /\ rtodo = [i \in Invocations |-> EmptyMap]

LocalIdle == StoreIdle /\ ExpiryIdle /\ OrphanIdle /\ PublicIdle /\ ReplayIdle

\* How the marker relates to device key `key` with counter cnt, in the terms
\* of the marker protocol: "absent", "other", or for the same device "close"
\* (less than Tolerance apart), "remote_ahead", "local_ahead".
MarkerCase(mk, key, cnt) ==
    IF ~mk.found THEN "absent"
    ELSE IF mk.lastUsedDevice # key THEN "other"
    ELSE IF Abs(mk.lastUpdated - cnt) < Tolerance THEN "close"
    ELSE IF mk.lastUpdated > cnt THEN "remote_ahead"
    ELSE "local_ahead"

\* Keys whose local copy on device d is tombstoned with a lastModified
\* greater than that of the copy in the remote snapshot.
NewerTombstones(d) ==
    {k \in (DOMAIN local[d]) \cap (DOMAIN snapshot.privateData) :
        /\ local[d][k].deleted
        /\ local[d][k].lastModified > snapshot.privateData[k].lastModified}

\* The last operation.  op, dev, action, success: the operation and its
\* result; hit: the calls that failed in it; pre: MarkerCase when it
\* started; had: the remote snapshot existed when it started; tomb: for
\* forceMerge NewerTombstones when it started, for a forceDownload that comes
\* right after a forceMerge without failure the tomb of that merge; again: a
\* sync() that comes right after a successful uploading or downloading sync()
\* of the same device; raised: the operation ended in a throw, not a result;
\* gc: the sweeps the operation started; removed: the keys of the records a
\* local delete removed from the object store.
NoOp == [op |-> "none", dev |-> Null, action |-> "no_action_needed",
         success |-> TRUE, hit |-> {}, pre |-> "absent", had |-> FALSE,
         tomb |-> {}, again |-> FALSE, raised |-> FALSE, gc |-> {},
         removed |-> {}]

\* getDeviceKey(): the key is created on the first call and never changes; the
\* key of device d is named d.
getDeviceKey(d) == d

\* The record of an operation of the sync family on device d with outcome r.
SyncRecord(op, d, r) ==
    [op |-> op, dev |-> d, action |-> r.action, success |-> r.success,
     hit |-> r.hit, pre |-> MarkerCase(marker, getDeviceKey(d), counter[d]),
     had |-> snapshot.found,
     tomb |-> CASE op = "forceMerge" -> NewerTombstones(d)
                [] op = "forceDownload" /\ last.op = "forceMerge"
                       /\ last.hit = {} -> last.tomb
                [] OTHER -> {},
     again |-> /\ op = "sync" /\ last.op = "sync" /\ last.dev = d
               /\ last.success /\ last.action \in {"uploaded", "downloaded"},
     raised |-> r.err # "none", gc |-> r.gc, removed |-> {}]

\* The record of a local operation on device d.
LocalRecord(op, d) == [NoOp EXCEPT !.op = op, !.dev = d]

\* Snapshots the remote store may hold when the devices start: written at
\* time TimeStep, before the clock of the model starts.
InitRecords == [lastModified : {TimeStep}, deleted : BOOLEAN, data : 1..MaxVal]

InitSnapshots ==
    {NoSnapshot} \cup
    {[found |-> TRUE, privateData |-> m] :
        m \in UNION {[D -> InitRecords] : D \in SUBSET Keys}}

SyncInit ==
    /\ now = Tolerance
    /\ local = [d \in Devs |-> EmptyMap]
    /\ counter = [d \in Devs |-> 0]
    /\ snapshot \in InitSnapshots
    /\ marker = NoMarker
    /\ budget = 0
    /\ last = NoOp

Init == SyncInit /\ MergeIdle /\ DebounceIdle /\ LocalIdle

\* Write the outcome r of a handler that ran on device d with the remote
\* calls of F failing: every call of F was reached, and the behaviour had an
\* operation with failing calls left.
Commit(d, r, F) ==
    /\ F # {} => budget > 0
    /\ r.hit = F
    /\ budget' = IF F # {} THEN budget - 1 ELSE budget
    /\ local' = [local EXCEPT ![d] = r.loc]
    /\ counter' = [counter EXCEPT ![d] = r.cnt]
    /\ snapshot' = r.snap
    /\ marker' = r.mk

\* The clock advances.
Tick ==
    /\ now + TimeStep <= MaxTime
    /\ now' = now + TimeStep
    /\ UNCHANGED <<local, counter, snapshot, marker, budget, last>>
    /\ UNCHANGED <<mergeVars, debounceVars, localVars>>

\* sync() on device d, called directly or by the debounce timer, with the
\* remote calls of F failing.
SyncStep(d, F) ==
    LET r == sync(Ctx(local[d], counter[d], snapshot, marker),
                  getDeviceKey(d), now, F)
    IN  /\ Commit(d, r, F)
        /\ last' = SyncRecord("sync", d, r)
        /\ UNCHANGED now
        /\ UNCHANGED <<mergeVars, debounceVars, localVars>>

Sync(d) == \E F \in SUBSET Sites : SyncStep(d, F)

\* forceUploadToBackend() on device d.
ForceUploadStep(d, F) ==
    LET r == forceUploadToBackend(
                 Ctx(local[d], counter[d], snapshot, marker), now, F)
    IN  /\ Commit(d, r, F)
        /\ last' = SyncRecord("forceUpload", d, r)
        /\ UNCHANGED now
        /\ UNCHANGED <<mergeVars, debounceVars, localVars>>

ForceUpload(d) ==
    \E F \in SUBSET {"getAllLocal", "putSnapshot"} : ForceUploadStep(d, F)

\* forceDownloadFromBackend() on device d.
ForceDownloadStep(d, F) ==
    LET r == forceDownloadFromBackend(
                 Ctx(local[d], counter[d], snapshot, marker), now, F)
    IN  /\ Commit(d, r, F)
        /\ last' = SyncRecord("forceDownload", d, r)
        /\ UNCHANGED now
        /\ UNCHANGED <<mergeVars, debounceVars, localVars>>

ForceDownload(d) ==
    \E F \in SUBSET {"getSnapshot", "getAllLocal", "putSnapshot"} :
        ForceDownloadStep(d, F)

\* forceMergeWithBackend() on device d.
ForceMergeStep(d, F) ==
    LET r == forceMergeWithBackend(
                 Ctx(local[d], counter[d], snapshot, marker), now, F)
    IN  /\ Commit(d, r, F)
        /\ last' = SyncRecord("forceMerge", d, r)
        /\ UNCHANGED now
        /\ UNCHANGED <<mergeVars, debounceVars, localVars>>

ForceMerge(d) ==
    \E F \in SUBSET {"getAllLocal", "getSnapshot", "putSnapshot"} :
        ForceMergeStep(d, F)

\* createPrivateDataByKey(k, v) on device d: put the record, save the counter
\* (the debounce timer it arms is the subject of SpecDebounce).
Create(d, k, v) ==
    /\ local' = [local EXCEPT ![d] =
                    MapSet(@, k, [lastModified |-> now, deleted |-> FALSE,
                                  data |-> v])]
    /\ counter' = [counter EXCEPT ![d] = now]
    /\ last' = LocalRecord("create", d)
    /\ UNCHANGED <<now, snapshot, marker, budget>>
    /\ UNCHANGED <<mergeVars, debounceVars, localVars>>

\* deletePrivateIndexedDBDataByKey(k) on device d: store.delete, save the
\* counter.
Delete(d, k) ==
    /\ local' = [local EXCEPT ![d] = MapDelete(@, k)]
    /\ counter' = [counter EXCEPT ![d] = now]
    /\ last' = [LocalRecord("delete", d) EXCEPT
                    !.removed = {k} \cap DOMAIN local[d]]
    /\ UNCHANGED <<now, snapshot, marker, budget>>
    /\ UNCHANGED <<mergeVars, debounceVars, localVars>>

\* The debug page saves a marker under a key of its own through the manager
\* of device d.
DebugSaveLastUsedDevice(d) ==
    \E F \in SUBSET {"putMarker"} :
        LET r == saveLastUsedDeviceToS3(
                     Ctx(local[d], counter[d], snapshot, marker),
                     DebugDevice, now, F)
        IN  /\ F # {} => budget > 0
            /\ r.hit = F
            /\ budget' = IF F # {} THEN budget - 1 ELSE budget
            /\ marker' = r.mk
            /\ last' = [LocalRecord("debugSave", d) EXCEPT !.hit = r.hit,
                            !.success = (r.err = "none")]
            /\ UNCHANGED <<now, local, counter, snapshot>>
            /\ UNCHANGED <<mergeVars, debounceVars, localVars>>

Next ==
    \/ Tick
    \/ \E d \in Devs : Sync(d)
    \/ \E d \in Devs : ForceUpload(d)
    \/ \E d \in Devs : ForceDownload(d)
    \/ \E d \in Devs : ForceMerge(d)
    \/ \E d \in Devs, k \in Keys, v \in 1..MaxVal : Create(d, k, v)
    \/ \E d \in Devs, k \in Keys : Delete(d, k)
    \/ \E d \in Devs : DebugSaveLastUsedDevice(d)

Spec == Init /\ [][Next]_vars

(***************************************************************************)
(* SpecLive: an owner with one device, no failing call.  The device keeps  *)
(* running sync(): a sync() that can change the state is eventually run.   *)
(***************************************************************************)
LiveDevice == "d1"

\* A local mutation of the device: a create or a delete of a record.
LiveMutation ==
    \/ \E k \in Keys, v \in 1..MaxVal : Create(LiveDevice, k, v)
    \/ \E k \in Keys : Delete(LiveDevice, k)

LiveNext ==
    \/ Tick
    \/ Sync(LiveDevice)
    \/ LiveMutation

SpecLive == Init /\ [][LiveNext]_vars /\ WF_vars(Sync(LiveDevice))

(***************************************************************************)
(* SpecReplay: forceDownloadFromBackend() step by step.  The handler awaits *)
(* the fetch, the partition clear and every put, and other handlers run     *)
(* between its awaits: two invocations on one device, and local creates.    *)
(***************************************************************************)
ReplayDevice == "d1"

ReplayFrame ==
    UNCHANGED <<mergeVars, debounceVars, storeVars, expiryVars, orphanVars,
                publicVars>>

\* BeginReplay with a lock on the dataset: no other invocation is between its
\* partition clear and the end of its replay.
BeginReplay_Locked(i) ==
    /\ \A j \in Invocations : rpc[j] = "idle"
    /\ snapshot.found
    /\ local' = [local EXCEPT ![ReplayDevice] = EmptyMap]
    /\ rpc' = [rpc EXCEPT ![i] = "replay"]
    /\ rtodo' = [rtodo EXCEPT ![i] = snapshot.privateData]
    /\ UNCHANGED <<now, counter, snapshot, marker, budget, last>>
    /\ ReplayFrame

\* Invocation i of downloadPrivateDataFromS3 fetches the snapshot and runs
\* clearAllPrivateData(false).
BeginReplay(i) ==
    /\ rpc[i] = "idle"
    /\ snapshot.found
    /\ local' = [local EXCEPT ![ReplayDevice] = EmptyMap]
    /\ rpc' = [rpc EXCEPT ![i] = "replay"]
    /\ rtodo' = [rtodo EXCEPT ![i] = snapshot.privateData]
    /\ UNCHANGED <<now, counter, snapshot, marker, budget, last>>
    /\ ReplayFrame

\* Invocation i puts the next item of the snapshot it fetched:
\* setPrivateIndexedDBData(item, false).
ReplayPut(i, k) ==
    /\ rpc[i] = "replay"
    /\ k \in DOMAIN rtodo[i]
    /\ local' = [local EXCEPT ![ReplayDevice] =
                    MapSet(@, k, DownloadedItem(rtodo[i][k], now))]
    /\ rtodo' = [rtodo EXCEPT ![i] = MapDelete(@, k)]
    /\ UNCHANGED <<now, counter, snapshot, marker, budget, last, rpc>>
    /\ ReplayFrame

\* The replay of invocation i is over and forceDownloadFromBackend() returns
\* success: true, action: "downloaded".
EndReplay(i) ==
    /\ rpc[i] = "replay"
    /\ rtodo[i] = EmptyMap
    /\ rpc' = [rpc EXCEPT ![i] = "idle"]
    /\ last' = [LocalRecord("forceDownload", ReplayDevice) EXCEPT
                    !.action = "downloaded"]
    /\ UNCHANGED <<now, local, counter, snapshot, marker, budget, rtodo>>
    /\ ReplayFrame

ReplayNext ==
    \/ Tick
    \/ \E i \in Invocations : BeginReplay(i)
    \/ \E i \in Invocations, k \in Keys : ReplayPut(i, k)
    \/ \E i \in Invocations : EndReplay(i)
    \/ \E k \in Keys, v \in 1..MaxVal : Create(ReplayDevice, k, v)

SpecReplay == Init /\ [][ReplayNext]_vars

(***************************************************************************)
(* SpecFaults: the sync family on one device whose calls may fail.  At     *)
(* most MaxFaults operations of a behaviour have failing calls.            *)
(***************************************************************************)
MaxFaults == 1

FaultDevice == "d1"

FaultInit ==
    /\ now = Tolerance
    /\ local = [d \in Devs |-> EmptyMap]
    /\ counter = [d \in Devs |-> 0]
    /\ snapshot \in InitSnapshots
    /\ marker = NoMarker
    /\ budget = MaxFaults
    /\ last = NoOp
    /\ MergeIdle /\ DebounceIdle /\ LocalIdle

FaultNext ==
    \/ Tick
    \/ Sync(FaultDevice)
    \/ ForceUpload(FaultDevice)
    \/ ForceDownload(FaultDevice)
    \/ ForceMerge(FaultDevice)
    \/ \E k \in Keys, v \in 1..MaxVal : Create(FaultDevice, k, v)
    \/ \E k \in Keys : Delete(FaultDevice, k)
    \/ DebugSaveLastUsedDevice(FaultDevice)

SpecFaults == FaultInit /\ [][FaultNext]_vars

(***************************************************************************)
(* SpecMerge: mergeData on every pair of bounded maps, then on its result. *)
(***************************************************************************)
SyncIdle ==
    /\ now = 0
    /\ local = [d \in Devs |-> EmptyMap]
    /\ counter = [d \in Devs |-> 0]
    /\ snapshot = NoSnapshot
    /\ marker = NoMarker
    /\ budget = 0
    /\ last = NoOp

MergeInit ==
    /\ mS3 \in MergeMaps
    /\ mLocal \in MergeMaps
    /\ mOut = EmptyMap
    /\ mOut2 = EmptyMap
    /\ mpc = "start"
    /\ SyncIdle
    /\ LocalIdle
    /\ DebounceIdle

\* mergedPrivateDataMap = mergeData(s3PrivateDataMap, localPrivateDataMap)
DoMerge ==
    /\ mpc = "start"
    /\ mOut' = mergeData(mS3, mLocal)
    /\ mpc' = "merged"
    /\ UNCHANGED <<mS3, mLocal, mOut2>>
    /\ UNCHANGED <<syncVars, debounceVars, localVars>>

\* The merge is run again on the same remote map and the merged map.
DoMergeAgain ==
    /\ mpc = "merged"
    /\ mOut2' = mergeData(mS3, mOut)
    /\ mpc' = "again"
    /\ UNCHANGED <<mS3, mLocal, mOut>>
    /\ UNCHANGED <<syncVars, debounceVars, localVars>>

MergeNext == DoMerge \/ DoMergeAgain

SpecMerge == MergeInit /\ [][MergeNext]_vars

(***************************************************************************)
(* SpecDebounce: the static registry debounceTimers for one dataType, the  *)
(* timers of setTimeout and the callbacks that are inside sync().  Time is *)
(* counted in ticks; a timer fires when it is due, before the clock moves  *)
(* on.  burst counts the calls of the current burst (each call less than   *)
(* DebounceTicks after the one before) and the sync() invocations started  *)
(* by a timer since the burst began.                                       *)
(***************************************************************************)
DebounceInit ==
    /\ dnow = 0
    /\ registry = 0
    /\ pending = EmptyMap
    /\ running = {}
    /\ nextId = 1
    /\ burst = NoBurst
    /\ settled = {}
    /\ SyncIdle
    /\ MergeIdle
    /\ LocalIdle

\* clearTimeout(t): a timer that has fired or was cleared is left alone.
clearTimeout(p, t) == MapDelete(p, t)

\* syncWithDebounce(debounceTime): clear the registered timer, arm a new one
\* and register it.
SyncWithDebounce ==
    /\ nextId <= MaxTimers
    /\ pending' = MapSet(IF registry # 0 THEN clearTimeout(pending, registry)
                                         ELSE pending,
                         nextId, dnow + DebounceTicks)
    /\ registry' = nextId
    /\ nextId' = nextId + 1
    /\ burst' = IF burst.calls > 0 /\ dnow - burst.lastCall < DebounceTicks
                THEN [burst EXCEPT !.calls = @ + 1, !.lastCall = dnow,
                                   !.early = @ \/ burst.started > 0]
                ELSE [NoBurst EXCEPT !.calls = 1, !.lastCall = dnow]
    /\ UNCHANGED <<dnow, running, settled>>
    /\ UNCHANGED <<syncVars, mergeVars, localVars>>

\* The callback of timer t starts: it calls sync().
TimerCallback(t) ==
    /\ t \in DOMAIN pending
    /\ pending[t] <= dnow
    /\ pending' = MapDelete(pending, t)
    /\ running' = running \cup {t}
    /\ burst' = [burst EXCEPT !.started = @ + 1,
                              !.early = @ \/ dnow < burst.lastCall + DebounceTicks]
    /\ UNCHANGED <<dnow, registry, nextId, settled>>
    /\ UNCHANGED <<syncVars, mergeVars, localVars>>

\* sync() returns in the callback of timer t: the promise is resolved and the
\* finally block deletes the entry of the dataType.
CallbackFinally(t) ==
    /\ t \in running
    /\ running' = running \ {t}
    /\ settled' = settled \cup {t}
    /\ registry' = 0
    /\ UNCHANGED <<dnow, pending, nextId, burst>>
    /\ UNCHANGED <<syncVars, mergeVars, localVars>>

\* clearDebounceTimer().
ClearDebounceTimer ==
    /\ registry # 0
    /\ pending' = clearTimeout(pending, registry)
    /\ registry' = 0
    /\ burst' = [burst EXCEPT !.cleared = TRUE]
    /\ UNCHANGED <<dnow, running, nextId, settled>>
    /\ UNCHANGED <<syncVars, mergeVars, localVars>>

\* StorageManager.clearAllDebounceTimers(): clearTimeout on every registered
\* timer, then clear the registry.  The registry of the model holds the entry
\* of one dataType.
ClearAllDebounceTimers ==
    /\ registry # 0
    /\ pending' = clearTimeout(pending, registry)
    /\ registry' = 0
    /\ burst' = [burst EXCEPT !.cleared = TRUE]
    /\ UNCHANGED <<dnow, running, nextId, settled>>
    /\ UNCHANGED <<syncVars, mergeVars, localVars>>

\* A tick of the clock; no armed timer is overdue.
DTick ==
    /\ dnow < MaxDTime
    /\ \A t \in DOMAIN pending : pending[t] > dnow
    /\ dnow' = dnow + 1
    /\ UNCHANGED <<registry, pending, running, nextId, burst, settled>>
    /\ UNCHANGED <<syncVars, mergeVars, localVars>>

DebounceNext ==
    \/ SyncWithDebounce
    \/ \E t \in 1..MaxTimers : TimerCallback(t)
    \/ \E t \in 1..MaxTimers : CallbackFinally(t)
    \/ ClearDebounceTimer
    \/ ClearAllDebounceTimers
    \/ DTick

SpecDebounce == DebounceInit /\ [][DebounceNext]_vars

\* SpecDebounceLive: the event loop runs the callback of a timer that is due,
\* the sync() a callback awaits returns, and time passes.  A call arms a
\* timer that is due before the clock of the model stops.
LiveSyncWithDebounce ==
    /\ dnow + DebounceTicks <= MaxDTime
    /\ SyncWithDebounce

DebounceLiveNext ==
    \/ LiveSyncWithDebounce
    \/ \E t \in 1..MaxTimers : TimerCallback(t)
    \/ \E t \in 1..MaxTimers : CallbackFinally(t)
    \/ ClearDebounceTimer
    \/ ClearAllDebounceTimers
    \/ DTick

SpecDebounceLive ==
    /\ DebounceInit
    /\ [][DebounceLiveNext]_vars
    /\ WF_vars(DTick)
    /\ \A t \in 1..MaxTimers :
          WF_vars(TimerCallback(t)) /\ WF_vars(CallbackFinally(t))

(***************************************************************************)
(* SpecStore: the object store privateDataStore of one local database,     *)
(* used by the managers of two owners on the dataset DataType.  A record   *)
(* is its key, userId, lastModified, createdAt, data, dataType and deleted *)
(* (learnerId is "" in every record since useLearnerId is false; lastRead  *)
(* is the subject of SpecExpiry).  The payload of a record is the owner    *)
(* who wrote it.  Only the manager of SyncOwner calls the sync family.     *)
(***************************************************************************)
MaxClock == 2      \* the clock of SpecStore stops at MaxClock

SyncOwner == "A"

\* getInputId(key): the last segment of the key.
getInputId(key) == key[2]

\* getPrivateKey(input) of the manager of owner o.
getPrivateKey(o, key) == <<o, getInputId(key)>>

Restrict(m, S) == [k \in S |-> m[k]]

\* getAllPrivateIndexedDBData() of owner o: index dataType, filter userId.
getAllPrivateIndexedDBData(store, o) ==
    Restrict(store, {k \in DOMAIN store :
                        store[k].dataType = DataType /\ store[k].userId = o})

\* The keys clearAllPrivateData(_, clearDataNotUserId) and the private branch
\* of clearObjectStore delete.
ClearedKeys(store, o, clearDataNotUserId) ==
    {k \in DOMAIN store :
        /\ store[k].dataType = DataType
        /\ IF clearDataNotUserId THEN store[k].userId # o
                                 ELSE store[k].userId = o}

\* The record downloadPrivateDataFromS3 puts for one item of the snapshot.
ReplayedItem(item, o, t) ==
    [key |-> item.key, userId |-> o, lastModified |-> t, data |-> item.data,
     createdAt |-> IF item.createdAt = 0 THEN t ELSE item.createdAt,
     dataType |-> DataType, deleted |-> item.deleted]

\* downloadPrivateDataFromS3 on an existing snapshot: clearAllPrivateData(false),
\* then one put per item.
ReplaySnapshot(store, o, snap, t) ==
    LET kept == Restrict(store, (DOMAIN store) \ ClearedKeys(store, o, FALSE))
    IN  [k \in (DOMAIN kept) \cup (DOMAIN snap.privateData) |->
            IF k \in DOMAIN snap.privateData
            THEN ReplayedItem(snap.privateData[k], o, t)
            ELSE kept[k]]

\* s3PrivateDataMap of mergePrivateDataAndS3, keyed by getInputId(item.key).
S3ItemMap(snap, t) ==
    [id \in {getInputId(k) : k \in DOMAIN snap.privateData} |->
        LET item == snap.privateData[
                        CHOOSE k \in DOMAIN snap.privateData :
                            getInputId(k) = id]
        IN  [item EXCEPT !.lastModified = IF @ = 0 THEN t ELSE @,
                         !.createdAt = IF @ = 0 THEN t ELSE @]]

\* localPrivateDataMap of mergePrivateDataAndS3.
LocalItemMap(store, o) ==
    LET all == getAllPrivateIndexedDBData(store, o) IN
    [id \in {getInputId(k) : k \in DOMAIN all} |->
        all[CHOOSE k \in DOMAIN all : getInputId(k) = id]]

\* mergePrivateDataAndS3 on an existing snapshot, up to the upload:
\* clearAllPrivateData(false), then one put per merged item under item.key.
ReplayMerged(store, o, snap, t) ==
    LET merged == mergeData(S3ItemMap(snap, t), LocalItemMap(store, o))
        kept == Restrict(store, (DOMAIN store) \ ClearedKeys(store, o, FALSE))
        puts == {merged[id].key : id \in DOMAIN merged}
    IN  [k \in (DOMAIN kept) \cup puts |->
            IF k \in puts
            THEN merged[CHOOSE id \in DOMAIN merged : merged[id].key = k]
            ELSE kept[k]]

\* A tombstone the snapshot of owner o may hold when the managers start.
InitTombstone(o, id) ==
    [key |-> <<o, id>>, userId |-> o, lastModified |-> 1, data |-> o,
     createdAt |-> 1, dataType |-> DataType, deleted |-> TRUE]

StoreInit ==
    /\ clock = 1
    /\ privateDataStore = EmptyMap
    /\ remote \in {NoSnapshot} \cup
                  {[found |-> TRUE,
                    privateData |-> [k \in {<<SyncOwner, id>>} |->
                                        InitTombstone(SyncOwner, id)]]
                      : id \in Ids}
    /\ slast = NoStoreOp
    /\ ExpiryIdle /\ OrphanIdle /\ PublicIdle /\ ReplayIdle
    /\ SyncIdle /\ MergeIdle /\ DebounceIdle

StoreFrame ==
    UNCHANGED <<mergeVars, syncVars, debounceVars, expiryVars, orphanVars,
                publicVars, replayVars>>

\* The record of an operation of owner o.
StoreOp(op, o) == [NoStoreOp EXCEPT !.op = op, !.owner = o]

\* The record of an operation that returned or reported the records of rs.
Saw(op, o, rs) ==
    [StoreOp(op, o) EXCEPT !.seen = {r.data : r \in rs},
                           !.seenDeleted = \E r \in rs : r.deleted]

\* Synced without the call of syncWithDebounce.
Synced_NoTrigger(rec) == [rec EXCEPT !.writes = @ + 1]

\* The success callbacks of setPrivateIndexedDBData(data) with sync = true,
\* of deletePrivateDataByKeyDirect and of clearAllPrivateData(true): the
\* counter is saved and the debounced sync is triggered.
Synced(rec) == [rec EXCEPT !.writes = @ + 1, !.triggers = @ + 1]

StoreTick ==
    /\ clock < MaxClock
    /\ clock' = clock + 1
    /\ UNCHANGED <<privateDataStore, remote, slast>>
    /\ StoreFrame

\* createPrivateDataByKey(key, privateData) of owner o.
CreatePrivateDataByKey(o, key) ==
    LET privateKey == getPrivateKey(o, key)
        newIndexedDBData ==
            [key |-> privateKey, userId |-> o, lastModified |-> clock,
             data |-> o, createdAt |-> clock, dataType |-> DataType,
             deleted |-> FALSE]
    IN  /\ privateDataStore' =
               MapSet(privateDataStore, privateKey, newIndexedDBData)
        /\ slast' = Synced(StoreOp("create", o))
        /\ UNCHANGED <<clock, remote>>
        /\ StoreFrame

\* readPrivateDataByKey(key) of owner o: a record that is found is put back
\* (lastRead = Date.now(), sync = true) and its data is returned.
ReadPrivateDataByKey(o, key) ==
    LET privateKey == getPrivateKey(o, key) IN
    /\ slast' = IF privateKey \in DOMAIN privateDataStore
                THEN Synced(Saw("read", o, {privateDataStore[privateKey]}))
                ELSE StoreOp("read", o)
    /\ UNCHANGED <<clock, privateDataStore, remote>>
    /\ StoreFrame

\* updatePrivateDataByKey(key, newPrivateData) of owner o.
UpdatePrivateDataByKey(o, key) ==
    LET privateKey == getPrivateKey(o, key) IN
    /\ IF privateKey \in DOMAIN privateDataStore
       THEN LET existingData == privateDataStore[privateKey] IN
            /\ privateDataStore' =
                   MapSet(privateDataStore, privateKey,
                          [existingData EXCEPT !.lastModified = clock])
            /\ slast' = Synced(Saw("update", o, {existingData}))
       ELSE /\ slast' = StoreOp("update", o)
            /\ UNCHANGED privateDataStore
    /\ UNCHANGED <<clock, remote>>
    /\ StoreFrame

\* hasPrivateDataByKey(key) of owner o.
HasPrivateDataByKey(o, key) ==
    LET privateKey == getPrivateKey(o, key) IN
    /\ slast' = IF privateKey \in DOMAIN privateDataStore
                THEN Saw("has", o, {privateDataStore[privateKey]})
                ELSE StoreOp("has", o)
    /\ UNCHANGED <<clock, privateDataStore, remote>>
    /\ StoreFrame

\* privateExistsById(key) of owner o: the key is looked up as it is given.
PrivateExistsById(o, key) ==
    /\ slast' = IF key \in DOMAIN privateDataStore
                THEN Saw("exists", o, {privateDataStore[key]})
                ELSE StoreOp("exists", o)
    /\ UNCHANGED <<clock, privateDataStore, remote>>
    /\ StoreFrame

\* getAllPrivateData() of owner o.
GetAllPrivateData(o) ==
    LET allData == getAllPrivateIndexedDBData(privateDataStore, o) IN
    /\ slast' = Saw("getAll", o, {allData[k] : k \in DOMAIN allData})
    /\ UNCHANGED <<clock, privateDataStore, remote>>
    /\ StoreFrame

\* getPrivateDataKeys() of owner o.
GetPrivateDataKeys(o) ==
    LET allData == getAllPrivateIndexedDBData(privateDataStore, o) IN
    /\ slast' = Saw("keys", o, {allData[k] : k \in DOMAIN allData})
    /\ UNCHANGED <<clock, privateDataStore, remote>>
    /\ StoreFrame

\* deletePrivateIndexedDBDataByKey(key) of owner o, also the private half of
\* deleteDataById(key): deletePrivateDataByKeyDirect(getPrivateKey(key)),
\* which is store.delete.
DeletePrivateIndexedDBDataByKey(o, key) ==
    LET privateKey == getPrivateKey(o, key) IN
    /\ privateDataStore' = MapDelete(privateDataStore, privateKey)
    /\ slast' = Synced(StoreOp("delete", o))
    /\ UNCHANGED <<clock, remote>>
    /\ StoreFrame

\* clearAllPrivateData(syncWithS3) of owner o.
ClearAllPrivateData(o, syncWithS3) ==
    LET gone == ClearedKeys(privateDataStore, o, FALSE) IN
    /\ privateDataStore' =
           Restrict(privateDataStore, (DOMAIN privateDataStore) \ gone)
    /\ slast' = IF syncWithS3 THEN Synced(StoreOp("clearAll", o))
                              ELSE StoreOp("clearAllNoSync", o)
    /\ UNCHANGED <<clock, remote>>
    /\ StoreFrame

\* clearEntireDatabase() of owner o: on the private store clearObjectStore
\* deletes the records of the owner and the dataset (on the public store it
\* walks the index dataType, which holds no record of createPublicData).
ClearEntireDatabase(o) ==
    LET gone == ClearedKeys(privateDataStore, o, FALSE) IN
    /\ privateDataStore' =
           Restrict(privateDataStore, (DOMAIN privateDataStore) \ gone)
    /\ slast' = StoreOp("clearEntire", o)
    /\ UNCHANGED <<clock, remote>>
    /\ StoreFrame

\* StoreUpload as an update of the snapshot: the records of the snapshot whose
\* key the local partition does not hold are kept.
StoreUpload_KeepsPrevious ==
    /\ remote' =
           LET mine == getAllPrivateIndexedDBData(privateDataStore, SyncOwner)
               old == remote.privateData
           IN  [found |-> TRUE,
                privateData |-> [k \in (DOMAIN old) \cup (DOMAIN mine) |->
                                    IF k \in DOMAIN mine THEN mine[k]
                                                         ELSE old[k]]]
    /\ slast' = [StoreOp("forceUpload", SyncOwner) EXCEPT !.writes = 1]
    /\ UNCHANGED <<clock, privateDataStore>>
    /\ StoreFrame

\* forceUploadToBackend() of SyncOwner; uploadPrivateDataToS3 saves the
\* counter.
StoreUpload ==
    /\ remote' = [found |-> TRUE,
                  privateData |->
                      getAllPrivateIndexedDBData(privateDataStore, SyncOwner)]
    /\ slast' = [StoreOp("forceUpload", SyncOwner) EXCEPT !.writes = 1]
    /\ UNCHANGED <<clock, privateDataStore>>
    /\ StoreFrame

\* StoreDownload with the partition clear of the replay run as
\* clearAllPrivateData(true).
StoreDownload_SyncedClear ==
    /\ IF remote.found
       THEN /\ privateDataStore' =
                   ReplaySnapshot(privateDataStore, SyncOwner, remote, clock)
            /\ slast' = Synced(StoreOp("forceDownload", SyncOwner))
            /\ UNCHANGED remote
       ELSE /\ remote' = [found |-> TRUE,
                          privateData |->
                              getAllPrivateIndexedDBData(privateDataStore,
                                                         SyncOwner)]
            /\ slast' = [StoreOp("forceDownload", SyncOwner) EXCEPT
                            !.writes = 1]
            /\ UNCHANGED privateDataStore
    /\ UNCHANGED clock
    /\ StoreFrame

\* forceDownloadFromBackend() of SyncOwner: the replay of the snapshot, or
\* the upload when there is no snapshot.
StoreDownload ==
    /\ IF remote.found
       THEN /\ privateDataStore' =
                   ReplaySnapshot(privateDataStore, SyncOwner, remote, clock)
            /\ slast' = StoreOp("forceDownload", SyncOwner)
            /\ UNCHANGED remote
       ELSE /\ remote' = [found |-> TRUE,
                          privateData |->
                              getAllPrivateIndexedDBData(privateDataStore,
                                                         SyncOwner)]
            /\ slast' = [StoreOp("forceDownload", SyncOwner) EXCEPT
                            !.writes = 1]
            /\ UNCHANGED privateDataStore
    /\ UNCHANGED clock
    /\ StoreFrame

\* forceMergeWithBackend() of SyncOwner: the replay of the merged map and
\* the upload of what the store then holds, or the upload of the local
\* records when there is no snapshot.
StoreMerge ==
    /\ privateDataStore' =
           IF remote.found
           THEN ReplayMerged(privateDataStore, SyncOwner, remote, clock)
           ELSE privateDataStore
    /\ remote' = [found |-> TRUE,
                  privateData |->
                      getAllPrivateIndexedDBData(privateDataStore', SyncOwner)]
    /\ slast' = [StoreOp("forceMerge", SyncOwner) EXCEPT !.writes = 1]
    /\ UNCHANGED clock
    /\ StoreFrame

StoreNext ==
    \/ StoreTick
    \/ \E o \in Owners, key \in PrivateKeys : CreatePrivateDataByKey(o, key)
    \/ \E o \in Owners, key \in PrivateKeys : ReadPrivateDataByKey(o, key)
    \/ \E o \in Owners, key \in PrivateKeys : UpdatePrivateDataByKey(o, key)
    \/ \E o \in Owners, key \in PrivateKeys : HasPrivateDataByKey(o, key)
    \/ \E o \in Owners, key \in PrivateKeys : PrivateExistsById(o, key)
    \/ \E o \in Owners : GetAllPrivateData(o)
    \/ \E o \in Owners : GetPrivateDataKeys(o)
    \/ \E o \in Owners, key \in PrivateKeys :
          DeletePrivateIndexedDBDataByKey(o, key)
    \/ \E o \in Owners, syncWithS3 \in BOOLEAN :
          ClearAllPrivateData(o, syncWithS3)
    \/ \E o \in Owners : ClearEntireDatabase(o)
    \/ StoreUpload
    \/ StoreDownload
    \/ StoreMerge

SpecStore == StoreInit /\ [][StoreNext]_vars

(***************************************************************************)
(* SpecExpiry: the object stores publicDataStore and privateDataStore, as   *)
(* cleanUp() sees them.  A stored object is kept with the properties it was *)
(* put with: a private record has userId, dataType and lastRead, a public   *)
(* record has storeName and lastRead.                                       *)
(***************************************************************************)
TimeToLive == 2       \* this.timeToLive, in ticks of tnow
MaxExpiryTime == 4    \* tnow stops at MaxExpiryTime

Undefined == "undefined"

\* record.f of a stored object: undefined when the object has no property f.
Field(record, f) == IF f \in DOMAIN record THEN record[f] ELSE Undefined

\* The records the cursor of index lastRead visits under
\* IDBKeyRange.upperBound(cutoffTime).
UpToCutoff(store, cutoffTime) ==
    {k \in DOMAIN store : store[k].lastRead <= cutoffTime}

\* cleanUpStore(publicStoreName, cutoffTime).
cleanUpStore(store, cutoffTime) ==
    Restrict(store,
             (DOMAIN store) \
                 {k \in UpToCutoff(store, cutoffTime) :
                     Field(store[k], "dataType") = DataType})

\* cleanUpPrivateStore(privateStoreName, cutoffTime) of owner o.
cleanUpPrivateStore(store, o, cutoffTime) ==
    Restrict(store,
             (DOMAIN store) \
                 {k \in UpToCutoff(store, cutoffTime) :
                     /\ Field(store[k], "userId") = o
                     /\ Field(store[k], "dataType") = DataType})

ExpiryInit ==
    /\ tnow = 1
    /\ expiryPrivate = EmptyMap
    /\ expiryPublic = EmptyMap
    /\ tlast = NoExpiryOp
    /\ StoreIdle /\ OrphanIdle /\ PublicIdle /\ ReplayIdle
    /\ SyncIdle /\ MergeIdle /\ DebounceIdle

ExpiryFrame ==
    UNCHANGED <<mergeVars, syncVars, debounceVars, storeVars, orphanVars,
                publicVars, replayVars>>

ExpiryOp(op, o) == [op |-> op, owner |-> o, cutoffTime |-> 0]

ExpiryTick ==
    /\ tnow < MaxExpiryTime
    /\ tnow' = tnow + 1
    /\ UNCHANGED <<expiryPrivate, expiryPublic, tlast>>
    /\ ExpiryFrame

\* createPublicData(input, createFunction): the object setPublicIndexedDBData
\* puts.
ExpiryCreatePublicData(o, id) ==
    /\ expiryPublic' = MapSet(expiryPublic, id,
                              [lastRead |-> tnow, storeName |-> DataType])
    /\ tlast' = ExpiryOp("createPublicData", o)
    /\ UNCHANGED <<tnow, expiryPrivate>>
    /\ ExpiryFrame

\* readPublicData(input, createFunction): a record that is found is put back
\* with lastRead = Date.now(); one that is not found is stored anew.
ExpiryReadPublicData(o, id) ==
    /\ expiryPublic' = MapSet(expiryPublic, id,
                              [lastRead |-> tnow, storeName |-> DataType])
    /\ tlast' = ExpiryOp("readPublicData", o)
    /\ UNCHANGED <<tnow, expiryPrivate>>
    /\ ExpiryFrame

\* createPrivateData(input, privateData) of owner o.
ExpiryCreatePrivateData(o, key) ==
    /\ expiryPrivate' = MapSet(expiryPrivate, getPrivateKey(o, key),
                               [userId |-> o, dataType |-> DataType,
                                lastRead |-> tnow])
    /\ tlast' = ExpiryOp("createPrivateData", o)
    /\ UNCHANGED <<tnow, expiryPublic>>
    /\ ExpiryFrame

\* readPrivateDataByKey(key) of owner o: lastRead = Date.now() on a record
\* that is found.
ExpiryReadPrivateData(o, key) ==
    LET privateKey == getPrivateKey(o, key) IN
    /\ expiryPrivate' =
           IF privateKey \in DOMAIN expiryPrivate
           THEN MapSet(expiryPrivate, privateKey,
                       [expiryPrivate[privateKey] EXCEPT !.lastRead = tnow])
           ELSE expiryPrivate
    /\ tlast' = ExpiryOp("readPrivateData", o)
    /\ UNCHANGED <<tnow, expiryPublic>>
    /\ ExpiryFrame

\* cleanUp() of the manager of owner o.
CleanUp(o) ==
    LET cutoffTime == tnow - TimeToLive IN
    /\ expiryPublic' = cleanUpStore(expiryPublic, cutoffTime)
    /\ expiryPrivate' = cleanUpPrivateStore(expiryPrivate, o, cutoffTime)
    /\ tlast' = [ExpiryOp("cleanUp", o) EXCEPT !.cutoffTime = cutoffTime]
    /\ UNCHANGED tnow
    /\ ExpiryFrame

\* The keys of the public store that clearObjectStore(publicStoreName)
\* deletes: the entries of index dataType under IDBKeyRange.only(dataType).
\* A record without the property dataType has no entry in the index.
ClearedPublicKeys(store) ==
    {k \in DOMAIN store : Field(store[k], "dataType") = DataType}

\* clearEntireDatabase() of the manager of owner o:
\* clearObjectStore(publicStoreName), then clearObjectStore(privateStoreName).
ExpiryClearEntireDatabase(o) ==
    /\ expiryPublic' =
           Restrict(expiryPublic,
                    (DOMAIN expiryPublic) \ ClearedPublicKeys(expiryPublic))
    /\ expiryPrivate' =
           Restrict(expiryPrivate,
                    (DOMAIN expiryPrivate) \ ClearedKeys(expiryPrivate, o, FALSE))
    /\ tlast' = ExpiryOp("clearEntireDatabase", o)
    /\ UNCHANGED tnow
    /\ ExpiryFrame

ExpiryNext ==
    \/ ExpiryTick
    \/ \E o \in Owners, id \in Ids : ExpiryCreatePublicData(o, id)
    \/ \E o \in Owners, id \in Ids : ExpiryReadPublicData(o, id)
    \/ \E o \in Owners, key \in PrivateKeys : ExpiryCreatePrivateData(o, key)
    \/ \E o \in Owners, key \in PrivateKeys : ExpiryReadPrivateData(o, key)
    \/ \E o \in Owners : CleanUp(o)
    \/ \E o \in Owners : ExpiryClearEntireDatabase(o)

SpecExpiry == ExpiryInit /\ [][ExpiryNext]_vars

(***************************************************************************)
(* SpecOrphan: the private records of one owner in all datasets, as         *)
(* clearOrphanedData() sees them.  A record is its dataType and learnerId;  *)
(* its key is the pair of its dataset and its id, and getInputId of the key *)
(* is the id.  Each dataset has its own manager.                            *)
(***************************************************************************)
LearnerDataType == "learner"             \* PATHS.LEARNER.DATA_TYPE
ChildDataTypes == {"message", "conversation"}   \* PATHS.*.DATA_TYPE
Learners == {"L1", "L2"}                 \* ids of learner records
ChildIds == {"i1"}                       \* ids of records of other datasets

\* getAllPrivateIndexedDBDataGeneric(dataType) on the store.
getAllPrivateIndexedDBDataGeneric(store, dataType) ==
    Restrict(store, {k \in DOMAIN store : store[k].dataType = dataType})

\* The keys clearOrphanedData() of the manager of dataset dataType hands to
\* deletePrivateDataByKeyDirect.
orphanedItems(store, dataType) ==
    LET learnerData == getAllPrivateIndexedDBDataGeneric(store, LearnerDataType)
        validLearnerIds == {getInputId(k) : k \in DOMAIN learnerData}
        allPrivateData == getAllPrivateIndexedDBDataGeneric(store, dataType)
    IN  {k \in DOMAIN allPrivateData :
            /\ allPrivateData[k].dataType # LearnerDataType
            /\ allPrivateData[k].learnerId # ""
            /\ allPrivateData[k].learnerId \notin validLearnerIds}

OrphanInit ==
    /\ orphanStore = EmptyMap
    /\ olast = NoOrphanOp
    /\ StoreIdle /\ ExpiryIdle /\ PublicIdle /\ ReplayIdle
    /\ SyncIdle /\ MergeIdle /\ DebounceIdle

OrphanFrame ==
    UNCHANGED <<mergeVars, syncVars, debounceVars, storeVars, expiryVars,
                publicVars, replayVars>>

OrphanOp(op, dataType) ==
    [NoOrphanOp EXCEPT !.op = op, !.dataType = dataType, !.before = orphanStore]

\* createPrivateDataByKey(id, data) of the learner manager (useLearnerId is
\* false: learnerId is "").
CreateLearner(id) ==
    /\ orphanStore' = MapSet(orphanStore, <<LearnerDataType, id>>,
                             [dataType |-> LearnerDataType, learnerId |-> ""])
    /\ olast' = Synced(OrphanOp("createLearner", LearnerDataType))
    /\ OrphanFrame

\* deletePrivateIndexedDBDataByKey(id) of the learner manager.
DeleteLearner(id) ==
    /\ orphanStore' = MapDelete(orphanStore, <<LearnerDataType, id>>)
    /\ olast' = Synced(OrphanOp("deleteLearner", LearnerDataType))
    /\ OrphanFrame

\* createPrivateDataByKey(id, data) of the manager of dataset dataType whose
\* current learner is currentLearner ("" when it has none to record).
CreateChild(dataType, id, currentLearner) ==
    /\ orphanStore' = MapSet(orphanStore, <<dataType, id>>,
                             [dataType |-> dataType,
                              learnerId |-> currentLearner])
    /\ olast' = Synced(OrphanOp("createChild", dataType))
    /\ OrphanFrame

RECURSIVE SyncedTimes(_, _)
SyncedTimes(rec, n) == IF n = 0 THEN rec ELSE SyncedTimes(Synced(rec), n - 1)

\* clearOrphanedData() of the manager of dataset dataType: one
\* deletePrivateDataByKeyDirect per orphaned item.
ClearOrphanedData(dataType) ==
    LET gone == orphanedItems(orphanStore, dataType) IN
    /\ orphanStore' = Restrict(orphanStore, (DOMAIN orphanStore) \ gone)
    /\ olast' = SyncedTimes(OrphanOp("clearOrphanedData", dataType),
                            Cardinality(gone))
    /\ OrphanFrame

OrphanNext ==
    \/ \E id \in Learners : CreateLearner(id)
    \/ \E id \in Learners : DeleteLearner(id)
    \/ \E dataType \in ChildDataTypes, id \in ChildIds,
          currentLearner \in Learners \cup {""} :
          CreateChild(dataType, id, currentLearner)
    \/ \E dataType \in ChildDataTypes \cup {LearnerDataType} :
          ClearOrphanedData(dataType)

SpecOrphan == OrphanInit /\ [][OrphanNext]_vars

(***************************************************************************)
(* SpecPublic: the object store publicDataStore and the public objects of   *)
(* the remote store, written by a manager with usePublicData and            *)
(* useS3PublicFolder true.  A payload is an object whose attributes hold    *)
(* "" (empty) or "x"; a local record is its data and storeName; a remote    *)
(* object is the payload.  The private half of deleteDataById and of        *)
(* exists is the subject of SpecStore.                                      *)
(***************************************************************************)
Attrs == {"a", "b"}
AttrValues == {"", "x"}
PublicInputs == {<<"public", id>> : id \in Ids}

Payloads == [Attrs -> AttrValues]                         \* PublicData
PartialPayloads == UNION {[D -> AttrValues] : D \in SUBSET Attrs}
NoData == <<>>    \* null where a PublicData is expected

\* getPublicKey(input): s3PublicPrefix and the input id.
getPublicKey(input) == <<"public", getInputId(input)>>

\* isDataValid(data): no attribute of data is null, undefined or "".
isDataValid(data) ==
    /\ data # NoData
    /\ \A key \in DOMAIN data : data[key] # ""

\* {...existing, ...newData}
Spread(existing, newData) ==
    [key \in (DOMAIN existing) \cup (DOMAIN newData) |->
        IF key \in DOMAIN newData THEN newData[key] ELSE existing[key]]

\* setPublicIndexedDBData(data): store.put({...data, storeName}).
setPublicIndexedDBData(store, key, data) ==
    MapSet(store, key, [data |-> data, storeName |-> DataType])

\* setS3PublicData(key, data): a payload that is not valid is not uploaded
\* and {success: false} is returned.
setS3PublicData(objects, key, data) ==
    IF isDataValid(data) THEN MapSet(objects, key, data) ELSE objects

\* getS3Data(key): null when there is no object.
getS3Data(objects, key) == IF key \in DOMAIN objects THEN objects[key] ELSE NoData

PublicInit ==
    /\ publicDataStore = EmptyMap
    /\ s3Public = EmptyMap
    /\ plast = NoPublicOp
    /\ StoreIdle /\ ExpiryIdle /\ OrphanIdle /\ ReplayIdle
    /\ SyncIdle /\ MergeIdle /\ DebounceIdle

PublicFrame ==
    UNCHANGED <<mergeVars, syncVars, debounceVars, storeVars, expiryVars,
                orphanVars, replayVars>>

\* The record of an operation on key with the payload it was to write, what
\* it reported and the two stores before it.
PublicOp(op, key, payload, ok, found) ==
    [op |-> op, key |-> key, payload |-> payload, ok |-> ok, found |-> found,
     localBefore |-> publicDataStore, remoteBefore |-> s3Public]

\* The part of createPublicData after createFunction() returned data: the
\* new stores and whether the result has error = null.
createPublicData(store, objects, key, data, checkDataValid) ==
    IF data = NoData
    THEN [store |-> store, objects |-> objects, ok |-> FALSE]
    ELSE IF ~isDataValid(data) /\ checkDataValid
    THEN [store |-> store, objects |-> objects, ok |-> FALSE]
    ELSE [store |-> setPublicIndexedDBData(store, key, data),
          objects |-> setS3PublicData(objects, key, data), ok |-> TRUE]

\* createPublicData(input, createFunction, checkDataValid) where
\* createFunction returns data (NoData: no data).
CreatePublicData(input, data, checkDataValid) ==
    LET key == getPublicKey(input)
        r == createPublicData(publicDataStore, s3Public, key, data,
                              checkDataValid)
    IN  /\ publicDataStore' = r.store
        /\ s3Public' = r.objects
        /\ plast' = PublicOp("createPublicData", key, data, r.ok, r.ok)
        /\ PublicFrame

\* updatePublicData(input, newData): both writes return an object, so the
\* test `!publicIndexedDBResult || !s3Result` is false and success is true.
UpdatePublicData(input, newData) ==
    LET key == getPublicKey(input) IN
    /\ IF key \notin DOMAIN publicDataStore
       THEN /\ plast' = PublicOp("updatePublicData", key, NoData, FALSE, FALSE)
            /\ UNCHANGED <<publicDataStore, s3Public>>
       ELSE LET data == Spread(publicDataStore[key].data, newData) IN
            /\ publicDataStore' =
                   setPublicIndexedDBData(publicDataStore, key, data)
            /\ s3Public' = setS3PublicData(s3Public, key, data)
            /\ plast' = PublicOp("updatePublicData", key, data, TRUE, TRUE)
    /\ PublicFrame

\* readPublicDataWithoutCreate(input): readPublicData with a createFunction
\* that returns no data.  A valid local record is put back and returned; else
\* a valid remote object is stored locally and returned; else createPublicData
\* reports "Data is null".
ReadPublicDataWithoutCreate(input) ==
    LET key == getPublicKey(input)
        s3Data == getS3Data(s3Public, key)
    IN  /\ IF key \in DOMAIN publicDataStore
              /\ isDataValid(publicDataStore[key].data)
           THEN /\ plast' = PublicOp("readPublicDataWithoutCreate", key,
                                     publicDataStore[key].data, TRUE, TRUE)
                /\ UNCHANGED publicDataStore
           ELSE IF s3Data # NoData /\ isDataValid(s3Data)
           THEN /\ publicDataStore' =
                       setPublicIndexedDBData(publicDataStore, key, s3Data)
                /\ plast' = PublicOp("readPublicDataWithoutCreate", key,
                                     s3Data, TRUE, TRUE)
           ELSE /\ plast' = PublicOp("readPublicDataWithoutCreate", key,
                                     NoData, FALSE, FALSE)
                /\ UNCHANGED publicDataStore
        /\ UNCHANGED s3Public
        /\ PublicFrame

\* readPublicData(input, createFunction, checkDataValid) where createFunction
\* returns data and the download of getS3Data, when it is reached, fails with
\* an error other than NoSuchKey if fails is true: getS3Data catches the
\* error and returns null.  failed: the download was made and failed;
\* created: createFunction was called.
ReadPublicData(input, data, checkDataValid, fails) ==
    LET key == getPublicKey(input)
        hit == /\ key \in DOMAIN publicDataStore
               /\ publicDataStore[key].data # NoData
               /\ (checkDataValid => isDataValid(publicDataStore[key].data))
        s3Data == IF fails THEN NoData ELSE getS3Data(s3Public, key)
        r == createPublicData(publicDataStore, s3Public, key, data,
                              checkDataValid)
        rec(payload, ok, failed, created) ==
            [failed |-> failed, created |-> created] @@
            PublicOp("readPublicData", key, payload, ok, ok)
    IN  /\ IF hit
           THEN /\ plast' = rec(publicDataStore[key].data, TRUE, FALSE, FALSE)
                /\ UNCHANGED <<publicDataStore, s3Public>>
           ELSE IF s3Data # NoData /\ (checkDataValid => isDataValid(s3Data))
           THEN /\ publicDataStore' =
                       setPublicIndexedDBData(publicDataStore, key, s3Data)
                /\ plast' = rec(s3Data, TRUE, FALSE, FALSE)
                /\ UNCHANGED s3Public
           ELSE /\ publicDataStore' = r.store
                /\ s3Public' = r.objects
                /\ plast' = rec(data, r.ok, fails, TRUE)
        /\ PublicFrame

\* publicExistsById(key), also exists(input) of a dataset without a private
\* record of the input: the local record, else the remote object.
PublicExistsById(input) ==
    LET key == getPublicKey(input)
        found == \/ key \in DOMAIN publicDataStore
                 \/ getS3Data(s3Public, key) # NoData
    IN  /\ plast' = PublicOp("publicExistsById", key, NoData, TRUE, found)
        /\ UNCHANGED <<publicDataStore, s3Public>>
        /\ PublicFrame

\* deleteDataById(key): deletePublicIndexedDBDataByKey(getPublicKey(key)),
\* which is store.delete on the local store.
DeleteDataById(input) ==
    LET key == getPublicKey(input) IN
    /\ publicDataStore' = MapDelete(publicDataStore, key)
    /\ plast' = PublicOp("deleteDataById", key, NoData, TRUE, FALSE)
    /\ UNCHANGED s3Public
    /\ PublicFrame

PublicNext ==
    \/ \E input \in PublicInputs, data \in Payloads \cup {NoData},
          checkDataValid \in BOOLEAN :
          CreatePublicData(input, data, checkDataValid)
    \/ \E input \in PublicInputs, newData \in PartialPayloads :
          UpdatePublicData(input, newData)
    \/ \E input \in PublicInputs : ReadPublicDataWithoutCreate(input)
    \/ \E input \in PublicInputs, data \in Payloads \cup {NoData},
          checkDataValid \in BOOLEAN, fails \in BOOLEAN :
          ReadPublicData(input, data, checkDataValid, fails)
    \/ \E input \in PublicInputs : PublicExistsById(input)
    \/ \E input \in PublicInputs : DeleteDataById(input)

SpecPublic == PublicInit /\ [][PublicNext]_vars

(***************************************************************************)
(* Claims about mergeData (SpecMerge).                                     *)
(***************************************************************************)

\* The copy of key k that the claimed rule selects: the local copy when its
\* lastModified is strictly greater, the remote copy otherwise.
ClaimedWinner(k) ==
    IF mLocal[k].lastModified > mS3[k].lastModified THEN mLocal[k] ELSE mS3[k]

\* C1: for every key present on both sides the merged result is the copy with
\* the strictly greater lastModified, and on equal lastModified the remote copy
\* (a tombstoned winner leaves the key out of the merged map).
C1_RemoteWinsTies ==
    mpc # "start" =>
        \A k \in (DOMAIN mS3) \cap (DOMAIN mLocal) :
            IF ClaimedWinner(k).deleted
            THEN k \notin DOMAIN mOut
            ELSE k \in DOMAIN mOut /\ mOut[k] = ClaimedWinner(k)

\* C2: merging the remote map with the result of a merge gives that result
\* again: merge(S, merge(S, L)) = merge(S, L).
C2_MergeIdempotent == mpc = "again" => mOut2 = mOut

(***************************************************************************)
(* Claims about the debounce registry (SpecDebounce).                      *)
(***************************************************************************)

\* C4: the calls of a burst produce exactly one sync() invocation, and it
\* starts no earlier than DebounceTicks after the last call of the burst.
C4_DebounceCoalescing ==
    /\ burst.started <= 1
    /\ ~burst.early
    /\ (burst.calls > 0 /\ ~burst.cleared /\ pending = EmptyMap)
           => burst.started = 1

(***************************************************************************)
(* Claims about the sync family (Spec).                                    *)
(***************************************************************************)

\* The last operation is op, and no remote call failed in it.
Ran(op) == last.op = op /\ last.hit = {}

\* The local partition of device d holds the items of the snapshot: the same
\* keys, payloads and deleted flags.
HoldsSnapshot(d) ==
    /\ DOMAIN local[d] = DOMAIN snapshot.privateData
    /\ \A k \in DOMAIN local[d] :
          /\ local[d][k].data = snapshot.privateData[k].data
          /\ local[d][k].deleted = snapshot.privateData[k].deleted

\* The marker names the device of the last operation.
MarkerNamesDevice ==
    getLastUsedDeviceFromS3(marker).lastUsedDevice = getDeviceKey(last.dev)

\* C3: a key whose local copy was tombstoned and newer than the remote copy is
\* absent from the local partition and from the snapshot after
\* forceMergeWithBackend, and absent from the local partition after a
\* forceDownloadFromBackend that follows.
C3_TombstoneConvergence ==
    /\ Ran("forceMerge") =>
          \A k \in last.tomb : /\ k \notin DOMAIN local[last.dev]
                               /\ k \notin DOMAIN snapshot.privateData
    /\ Ran("forceDownload") =>
          \A k \in last.tomb : k \notin DOMAIN local[last.dev]

C3_Witness ==
    /\ Ran("forceDownload")
    /\ last.action = "downloaded"
    /\ last.tomb # {}

\* C5: with no remote marker, sync() uploads the local partition as the
\* snapshot, writes a marker naming this device and returns "uploaded".
C5_AbsentMarkerUploads ==
    (Ran("sync") /\ last.pre = "absent") =>
        /\ last.success /\ last.action = "uploaded"
        /\ snapshot = [found |-> TRUE, privateData |-> local[last.dev]]
        /\ MarkerNamesDevice

C5_Witness ==
    /\ Ran("sync") /\ last.pre = "absent"
    /\ DOMAIN local[last.dev] # {}
    /\ last.had

\* C6: when the marker names this device and the two times are less than
\* Tolerance apart, sync() returns "no_action_needed" and leaves the snapshot,
\* the marker and the local partition as they are.
C6_InSyncNoAction ==
    [][\A d \in Devs :
          (SyncStep(d, {}) /\
           MarkerCase(marker, getDeviceKey(d), counter[d]) = "close")
          => /\ last'.success /\ last'.action = "no_action_needed"
             /\ snapshot' = snapshot /\ marker' = marker /\ local' = local]_vars

C6_Witness ==
    /\ Ran("sync") /\ last.pre = "close"
    /\ last.action = "no_action_needed"
    /\ marker.lastUpdated # counter[last.dev]

\* C7: when the marker names this device and its lastUpdated exceeds the local
\* counter by Tolerance or more, sync() downloads the snapshot and refreshes
\* the marker, whatever the counter is (0 included).
C7_RemoteAheadDownloads ==
    (Ran("sync") /\ last.pre = "remote_ahead" /\ last.had) =>
        /\ last.success /\ last.action = "downloaded"
        /\ HoldsSnapshot(last.dev)
        /\ MarkerNamesDevice

\* C8 as claimed: when the marker names another device, sync() returns
\* "downloaded", the local partition holds the snapshot and the marker names
\* this device.
C8_OtherDeviceDownloads ==
    (Ran("sync") /\ last.pre = "other") =>
        /\ last.success /\ last.action = "downloaded"
        /\ HoldsSnapshot(last.dev)
        /\ MarkerNamesDevice

\* C8 amended: when the marker names another device, sync() downloads if the
\* snapshot exists ("downloaded", the local partition holds the snapshot);
\* if the snapshot is not found it uploads the local partition ("uploaded");
\* either way the marker then names this device.
C8_OtherDeviceDownloadsOrUploads ==
    (Ran("sync") /\ last.pre = "other") =>
        /\ last.success
        /\ last.action = IF last.had THEN "downloaded" ELSE "uploaded"
        /\ HoldsSnapshot(last.dev)
        /\ MarkerNamesDevice

C8_Witness ==
    /\ Ran("sync") /\ last.pre = "other" /\ last.had
    /\ last.action = "downloaded"
    /\ DOMAIN local[last.dev] # {}

\* C9: after a sync() that uploaded, the marker read back names this device
\* and its lastUpdated is less than Tolerance away from the local counter.
C9_MarkerRoundTrip ==
    (Ran("sync") /\ last.success /\ last.action = "uploaded") =>
        /\ MarkerNamesDevice
        /\ Abs(getLastUsedDeviceFromS3(marker).lastUpdated
               - counter[last.dev]) < Tolerance

C9_Witness ==
    /\ Ran("sync") /\ last.success /\ last.action = "uploaded"
    /\ last.pre = "local_ahead"

\* C10: a sync() that comes right after a successful uploading or downloading
\* sync() of the same device returns "no_action_needed".
C10_SecondSyncNoAction ==
    (Ran("sync") /\ last.again) =>
        last.success /\ last.action = "no_action_needed"

C10_Witness == Ran("sync") /\ last.again /\ now > Tolerance

(***************************************************************************)
(* Claims about the private store (SpecStore).                             *)
(***************************************************************************)

\* The operations that read, test or list private records.
ReadOps == {"read", "has", "exists", "getAll", "keys"}

\* C11: no read, exists or list operation of the manager of one owner returns
\* or reports as present a record written under another owner.
C11_OwnerIsolation ==
    slast.op \in ReadOps => slast.seen \subseteq {slast.owner}

\* C17: a create, an update or read of a record that exists (each one put
\* with sync), a delete by key and a clearAllPrivateData with sync enabled
\* each make exactly one write of the counter and one trigger of the
\* debounced sync; operations that find no record or suppress sync trigger
\* nothing.
C17_MutationSynced ==
    /\ slast.op \in {"create", "delete", "clearAll"} =>
          slast.writes = 1 /\ slast.triggers = 1
    /\ slast.op \in {"update", "read"} =>
          IF slast.seen # {} THEN slast.writes = 1 /\ slast.triggers = 1
                             ELSE slast.writes = 0 /\ slast.triggers = 0
    /\ slast.op \in {"clearAllNoSync", "forceDownload", "forceMerge"} =>
          slast.triggers = 0

C17_Witness ==
    /\ slast.op = "update" /\ slast.seen # {}
    /\ slast.writes = 1 /\ slast.triggers = 1
    /\ \E k \in DOMAIN privateDataStore :
          privateDataStore[k].lastModified > privateDataStore[k].createdAt

\* C18: a step that leaves a record under its key leaves its createdAt as it
\* was.
C18_CreatedAtImmutable ==
    [][\A k \in (DOMAIN privateDataStore) \cap (DOMAIN privateDataStore') :
          privateDataStore'[k].createdAt = privateDataStore[k].createdAt]_vars

\* C19: no read operation returns or reports as present a record whose
\* deleted flag is true.
C19_TombstoneNotPresent ==
    slast.op \in {"read", "has", "exists", "getAll"} => ~slast.seenDeleted

\* C20: a logical delete of a record that exists leaves the record in the
\* store with deleted = true.
C20_SoftDelete ==
    [][\A o \in Owners, key \in PrivateKeys :
          (/\ DeletePrivateIndexedDBDataByKey(o, key)
           /\ getPrivateKey(o, key) \in DOMAIN privateDataStore)
          => /\ getPrivateKey(o, key) \in DOMAIN privateDataStore'
             /\ privateDataStore'[getPrivateKey(o, key)].deleted]_vars

(***************************************************************************)
(* Claims about cleanUp (SpecExpiry).                                      *)
(***************************************************************************)

\* C12: when cleanUp() of an owner has returned, no public record of the
\* dataset and no private record of the dataset and the owner has a lastRead
\* older than the cutoff now - timeToLive.
C12_TtlExpiry ==
    tlast.op = "cleanUp" =>
        /\ \A k \in DOMAIN expiryPublic :
              expiryPublic[k].lastRead >= tlast.cutoffTime
        /\ \A k \in DOMAIN expiryPrivate :
              expiryPrivate[k].userId = tlast.owner =>
                  expiryPrivate[k].lastRead >= tlast.cutoffTime

(***************************************************************************)
(* Claims about clearOrphanedData (SpecOrphan).                            *)
(***************************************************************************)

\* The records of store, in any dataset but the learner dataset, whose
\* learnerId is not empty and is not the id of a learner record of store.
OrphansAcrossDatasets(store) ==
    {k \in DOMAIN store :
        /\ store[k].dataType # LearnerDataType
        /\ store[k].learnerId # ""
        /\ \A l \in DOMAIN store :
              store[l].dataType = LearnerDataType =>
                  getInputId(l) # store[k].learnerId}

\* C13: when clearOrphanedData() has returned, the store holds exactly the
\* records it held before that are not orphans in any dataset other than the
\* learner dataset.
C13_OrphanCleanup ==
    olast.op = "clearOrphanedData" =>
        DOMAIN orphanStore =
            (DOMAIN olast.before) \ OrphansAcrossDatasets(olast.before)

(***************************************************************************)
(* Claims about the sync family under failures (Spec, SpecFaults).         *)
(***************************************************************************)

\* The operations of the sync family; the callback of syncWithDebounce
\* resolves its promise with the result of sync().
SyncFamily == {"sync", "forceUpload", "forceDownload", "forceMerge"}

\* C14: every sync() has started both sweeps, the TTL sweep cleanUp() and the
\* orphan sweep clearOrphanedData(), when it returns.
C14_BothSweepsAfterSync ==
    last.op = "sync" => {"cleanUp", "clearOrphanedData"} \subseteq last.gc

C16_MarkerReadFailure ==
    [][\A F \in SUBSET Sites :
          ("getMarker" \in F /\ SyncStep(FaultDevice, F)) =>
              /\ ~last'.success
              /\ last'.action = "no_action_needed"
              /\ UNCHANGED <<local, counter, snapshot, marker>>
              /\ last'.gc # {}]_vars

C16_Witness ==
    /\ last.op = "sync"
    /\ "getMarker" \in last.hit
    /\ ~last.success
    /\ last.gc # {}
    /\ local[FaultDevice] # EmptyMap
    /\ snapshot.found /\ marker.found

(***************************************************************************)
(* Claims about clearEntireDatabase (SpecExpiry).                          *)
(***************************************************************************)

\* C24: when clearEntireDatabase() has returned success, the local public
\* store and the local private store hold no record of any owner.
C24_ClearEntireDatabase ==
    tlast.op = "clearEntireDatabase" =>
        expiryPublic = EmptyMap /\ expiryPrivate = EmptyMap

(***************************************************************************)
(* Claims about public data (SpecPublic).                                  *)
(***************************************************************************)

\* C21: a createPublicData or updatePublicData whose payload fails
\* isDataValid reports failure and leaves the local public store and the
\* remote store as they were.
C21_InvalidPayloadNotWritten ==
    (/\ plast.op \in {"createPublicData", "updatePublicData"}
     /\ plast.payload # NoData
     /\ ~isDataValid(plast.payload))
    => /\ ~plast.ok
       /\ publicDataStore = plast.localBefore
       /\ s3Public = plast.remoteBefore

\* C22: when deleteDataById(k) has returned success, the public record k is
\* in neither the local store nor the remote store.
C22_PublicDeleteDualWritten ==
    (plast.op = "deleteDataById" /\ plast.ok)
    => /\ plast.key \notin DOMAIN publicDataStore
       /\ plast.key \notin DOMAIN s3Public

(***************************************************************************)
(* Further claims about the sync family (SpecFaults, Spec).                *)
(***************************************************************************)

\* The calls of the remote store among Sites.
RemoteSites == {"getMarker", "getSnapshot", "putSnapshot", "putMarker"}

\* C23: an operation of the sync family in which a call of the remote store
\* failed with an error other than not-found returns success = false.
C23_RemoteFailureReported ==
    (last.op \in SyncFamily /\ last.hit \cap RemoteSites # {})
    => ~last.success

\* The local partition loc and the remote snapshot hold the same keys and,
\* under each key, the same payload.
SameContent(loc, snap) ==
    /\ snap.found
    /\ DOMAIN loc = DOMAIN snap.privateData
    /\ \A k \in DOMAIN loc : loc[k].data = snap.privateData[k].data

\* C25: if from some point on no local mutation happens, and the device
\* keeps running sync(), then from some point on the local partition of the
\* device holds the keys and payloads of the remote snapshot.
C25_EventualConsistency ==
    ([]<><<LiveMutation>>_vars) \/ <>[]SameContent(local[LiveDevice], snapshot)

\* The records of device d written by its last mutation, when the last
\* operation is a create on d: the create put the record and saved the
\* counter with the same Date.now().
CreatedLast(d) ==
    {k \in DOMAIN local[d] :
        /\ last.op = "create" /\ last.dev = d
        /\ local[d][k].lastModified = counter[d]}

\* C26: when device d created a record and the next operation is a sync() on
\* d that succeeds with no failing call, then after it the local partition
\* still holds the record with its payload and the remote snapshot holds it
\* too, whichever device the marker names.
C26_UnsyncedMutationKept ==
    [][\A d \in Devs :
          (last'.op = "sync" /\ last'.dev = d /\ last'.success
              /\ last'.hit = {})
          => \A k \in CreatedLast(d) :
                /\ k \in DOMAIN local'[d]
                /\ local'[d][k].data = local[d][k].data
                /\ snapshot'.found
                /\ k \in DOMAIN snapshot'.privateData
                /\ snapshot'.privateData[k].data = local[d][k].data]_vars

(***************************************************************************)
(* Further claims about the debounce registry (SpecDebounce,               *)
(* SpecDebounceLive).                                                      *)
(***************************************************************************)

\* C27: at most one timer is pending, and a pending timer is the one the
\* registry holds.
C27_OnePendingRegistered ==
    /\ Cardinality(DOMAIN pending) <= 1
    /\ \A t \in DOMAIN pending : registry = t

\* C28: the promise of every call of syncWithDebounce is eventually
\* resolved; timer t is the timer of the t-th call.
C28_EveryCallSettles ==
    \A t \in 1..MaxTimers : (t < nextId) ~> (t \in settled)

(***************************************************************************)
(* Claims about the merge (SpecFaults, Spec).                              *)
(***************************************************************************)

\* The last operation is a forceMergeWithBackend() that fetched the snapshot,
\* replaced the local partition by the merged set and failed to upload it.
MergeInterrupted ==
    last.op = "forceMerge" /\ last.had /\ last.hit = {"putSnapshot"}

\* The records of map m that are not tombstones.
LiveKeys(m) == {k \in DOMAIN m : ~m[k].deleted}

\* The remote snapshot holds the live records of the local partition loc: the
\* same keys and, under each key, the same payload.
SnapshotHolds(loc, snap) ==
    /\ snap.found
    /\ LiveKeys(snap.privateData) = LiveKeys(loc)
    /\ \A k \in LiveKeys(loc) : snap.privateData[k].data = loc[k].data

\* C29: when a merge was interrupted between the replacement of the local
\* partition and the upload, and the next operation is a sync() of the same
\* device in which no call fails, then after it the remote snapshot holds
\* the live keys and payloads of the merged local partition.
C29_MergeSelfHealing ==
    [][(MergeInterrupted /\ last'.op = "sync" /\ last'.dev = last.dev
           /\ last'.hit = {})
       => SnapshotHolds(local[last.dev], snapshot')]_vars

\* C30: when device d deleted record k and the next operation is a
\* forceMergeWithBackend() of d that succeeds with no failing call, then
\* after it k is a live record neither of the local partition nor of the
\* remote snapshot.
C30_DeletedStaysDeleted ==
    [][\A d \in Devs :
          (last.op = "delete" /\ last.dev = d /\ last'.op = "forceMerge"
              /\ last'.dev = d /\ last'.success /\ last'.hit = {})
          => \A k \in last.removed :
                /\ k \notin LiveKeys(local'[d])
                /\ k \notin LiveKeys(snapshot'.privateData)]_vars

(***************************************************************************)
(* Further claims about mergeData (SpecMerge).                             *)
(***************************************************************************)

\* The winning side of key k under the claimed rule: the only copy, or of two
\* copies ClaimedWinner.
WinningSide(k) ==
    IF k \in (DOMAIN mS3) \cap (DOMAIN mLocal) THEN ClaimedWinner(k)
    ELSE IF k \in DOMAIN mS3 THEN mS3[k] ELSE mLocal[k]

\* C31: no record of the merged map is tombstoned, and a key of either input
\* is absent from the merged map exactly when its winning side is
\* tombstoned.
C31_MergedHasNoTombstone ==
    mpc # "start" =>
        /\ \A k \in DOMAIN mOut : ~mOut[k].deleted
        /\ \A k \in (DOMAIN mS3) \cup (DOMAIN mLocal) :
              (k \notin DOMAIN mOut) <=> WinningSide(k).deleted

(***************************************************************************)
(* Further claims about cancelling (SpecDebounce).                         *)
(***************************************************************************)

\* A step of clearDebounceTimer() or clearAllDebounceTimers(): the entry of
\* the registry is removed and no callback returns.
ClearReturns == registry # 0 /\ registry' = 0 /\ running' = running

\* C32: when clearDebounceTimer() or clearAllDebounceTimers() returns, no
\* timer is pending: without a new trigger no callback can start sync().
C32_ClearLeavesNoTimer ==
    [][ClearReturns => pending' = EmptyMap]_vars

(***************************************************************************)
(* Further claims about the private store (SpecStore).                     *)
(***************************************************************************)

\* C33: a forceDownloadFromBackend() that replays a snapshot saves the
\* counter and triggers the debounced sync not once; a
\* forceMergeWithBackend() that replays the merged map triggers nothing and
\* saves the counter once, in the upload that follows the replay.
C33_ReplaySuppressesSync ==
    [][(clock' = clock /\ remote.found)
       => /\ slast'.op = "forceDownload"
                => slast'.writes = 0 /\ slast'.triggers = 0
          /\ slast'.op = "forceMerge"
                => slast'.writes = 1 /\ slast'.triggers = 0]_vars

\* A forceDownloadFromBackend() replayed a live record of the snapshot.
C33_Witness ==
    /\ slast.op = "forceDownload" /\ slast.writes = 0
    /\ \E k \in DOMAIN privateDataStore :
          /\ privateDataStore[k].userId = SyncOwner
          /\ ~privateDataStore[k].deleted

\* C34: after forceUploadToBackend() the snapshot holds exactly the records
\* of the local store that belong to the dataset and the owner, tombstones
\* included.
C34_UploadReplacesSnapshot ==
    slast.op = "forceUpload" =>
        /\ remote.found
        /\ DOMAIN remote.privateData =
               {k \in DOMAIN privateDataStore :
                   /\ privateDataStore[k].dataType = DataType
                   /\ privateDataStore[k].userId = SyncOwner}
        /\ \A k \in DOMAIN remote.privateData :
               remote.privateData[k] = privateDataStore[k]

\* A forceUploadToBackend() uploaded a tombstoned record while the store
\* holds a record of another owner.
C34_Witness ==
    /\ slast.op = "forceUpload"
    /\ \E k \in DOMAIN remote.privateData : remote.privateData[k].deleted
    /\ \E k \in DOMAIN privateDataStore :
          privateDataStore[k].userId # SyncOwner

(***************************************************************************)
(* Further claims about the public store (SpecPublic).                     *)
(***************************************************************************)

\* C35: a readPublicData whose download of the remote object failed with an
\* error other than not-found does not call the create function and leaves
\* the remote objects as they were.
C35_FetchFailureIsNotAbsence ==
    (plast.op = "readPublicData" /\ plast.failed)
    => ~plast.created /\ s3Public = plast.remoteBefore

(***************************************************************************)
(* Further claims about cleanUp (SpecExpiry).                              *)
(***************************************************************************)

\* C36: cleanUp() of an owner leaves in place every public record whose
\* lastRead is at or after the cutoff, and every private record whose
\* lastRead is at or after the cutoff or whose owner is another one.
C36_CleanUpRetains ==
    [][(tnow' = tnow /\ tlast'.op = "cleanUp")
       => /\ \A k \in DOMAIN expiryPublic :
                expiryPublic[k].lastRead >= tlast'.cutoffTime
                => k \in DOMAIN expiryPublic'
          /\ \A k \in DOMAIN expiryPrivate :
                (\/ expiryPrivate[k].lastRead >= tlast'.cutoffTime
                 \/ expiryPrivate[k].userId # tlast'.owner)
                => k \in DOMAIN expiryPrivate']_vars

(***************************************************************************)
(* Claims about concurrent invocations (SpecReplay).                       *)
(***************************************************************************)

\* C37: while an invocation is between its partition clear and the end of
\* its replay, the partition clear of another invocation that is not
\* running and a local create can take their step.
C37_NoMutualExclusion ==
    \A i \in Invocations :
        (rpc[i] = "replay" /\ snapshot.found)
        => /\ ENABLED (\E k \in Keys, v \in 1..MaxVal :
                          Create(ReplayDevice, k, v))
           /\ \A j \in Invocations :
                 rpc[j] = "idle" => ENABLED BeginReplay(j)

\* An invocation has put an item and is not yet at the end of its replay,
\* and the partition no longer holds the item: another invocation cleared
\* the partition in between.
C37_Witness ==
    \E i \in Invocations :
        /\ rpc[i] = "replay"
        /\ \E k \in DOMAIN snapshot.privateData :
              k \notin DOMAIN rtodo[i] /\ k \notin DOMAIN local[ReplayDevice]

(***************************************************************************)
(* Further claims about downloads and uploads (Spec, SpecFaults).          *)
(***************************************************************************)

\* C38: after a forceDownloadFromBackend() that downloaded, every record of
\* the local partition has the lastModified it has in the remote snapshot.
C38_DownloadKeepsLastModified ==
    (Ran("forceDownload") /\ last.action = "downloaded")
    => \A k \in DOMAIN local[last.dev] :
          /\ k \in DOMAIN snapshot.privateData
          /\ local[last.dev][k].lastModified =
                 snapshot.privateData[k].lastModified

\* C39: an operation of the sync family that returns success = true and
\* action "uploaded" has written the remote snapshot: the upload was reached
\* and did not fail, and the snapshot holds the local partition.
C39_UploadedMeansWritten ==
    (last.op \in SyncFamily /\ last.success /\ last.action = "uploaded")
    => /\ last.hit \cap {"getAllLocal", "putSnapshot"} = {}
       /\ snapshot.found
       /\ snapshot.privateData = local[last.dev]

\* C40: a read of a private record by key is no local mutation: it makes no
\* write of the counter of local updates and no trigger of the debounced
\* sync, whether the record is found or not.
C40_ReadIsNoMutation ==
    slast.op = "read" => slast.writes = 0 /\ slast.triggers = 0

====
